---- MODULE Spec2Model ----
(***************************************************************************)
(* Model of the eipi timed-assessment engine: the StudentPortal component  *)
(* (src/unnamed/part_007), the question parser (src/unnamed/part_001) and  *)
(* the persistence service (src/services/dbService.ts); of the older       *)
(* component src/components/StudentPortal.tsx, the shuffle of startExam.   *)
(*                                                                         *)
(* The component is a React function component.  Its useState cells are    *)
(* the variables below; every event handler, timer callback, effect and    *)
(* every continuation of an async function after an await is one action.   *)
(* JavaScript runs them one at a time, so actions are atomic, and an       *)
(* async function is a process whose position (pc) is part of the state.   *)
(***************************************************************************)
EXTENDS Integers, Sequences, FiniteSets, TLC

(***************************************************************************)
(* Bounds of the model.                                                    *)
(***************************************************************************)
\* slice(0, 50) of startExam, scaled down so that banks larger than the
\* selection occur within the bounds.
SelectCount == 2
\* 60 * 60 seconds of startExam / useState, scaled down so that the countdown
\* reaches zero within the bounds.
ExamDuration == 2
\* Successful starts of an exam that are followed.
MaxSessions == 2
\* Focus-loss events of the window that are followed.
MaxBlur == 2
\* Calls of startExam that may be awaiting the bank at the same time.
MaxPendingStarts == 2
\* Sync runs of another tab on the same Content Store.
MaxOtherSyncs == 1

None == "none"

(***************************************************************************)
(* State.                                                                  *)
(***************************************************************************)
VARIABLES
    \* Content Store: IndexedDB store live_bank, keys 'main' and 'meta'
    storeMain,            \* value under 'main': a question list, if stored
    storeMeta,            \* value under 'meta': {version}, if stored
    \* Firestore collection users/{uid}/exam_history, most recent first
    remoteHistory,
    \* initData of this tab's component ("self") and of another tab
    \* ("other"): [pc, markdown, localMeta, live] of each run
    sync,
    otherSyncs,           \* sync runs of the other tab started so far
    \* useState cells of StudentPortal
    examState,
    questions,
    bankSize,
    answers,
    flagged,
    currentQuestionIndex,
    timeLeft,
    cheatingAttempts,
    showCheatingWarning,
    isSyncing,
    isSubmitting,
    showSubmitModal,
    reviewMode,
    reviewFilter,
    history,
    timedOut,
    \* async calls in flight
    pendingStarts,        \* startExam calls awaiting loadLiveBank
    submits,              \* performSubmit calls: sequence of [auto, pc, result]
    \* observation
    alertShown,           \* text of the last window.alert
    session,              \* number of successful starts so far
    focusLosses,          \* number of 'blur' events of the window so far
    mounted,              \* the StudentPortal component is mounted
    served,               \* blocks of the bank.md served under the name "docS"
    \* Firebase Auth and Firestore as AppContent and AuthModal see them
    authUser,             \* auth.currentUser: a uid, or none
    authEvents,           \* onAuthStateChanged notifications not yet delivered
    profileLoads,         \* listener callbacks awaiting loadUserProfile(uid)
    \* the route of BrowserRouter
    path,
    \* useState cells of AppContent
    firebaseUid,
    currentUser,
    isTeacherAuth,
    authLoading,
    showLoginModal,
    \* useState cells of AuthModal (staff form)
    isLoggingIn,
    failedAttempts,
    lockoutUntil,         \* seconds from now to the end of the lockout; 0 for null
    logins,               \* handleTeacherLogin calls in flight: [pc, attempts, uid]
    \* observation
    adminConfirmed,       \* uids for which checkIsAdmin has returned true
    failures              \* failed staff logins since the counter was last reset

(***************************************************************************)
(* Bank documents.  A document is a sequence of question blocks; a block   *)
(* is what the regular expressions of parseMarkdownQuestions read from it: *)
(* the number of its header, its topic ("" when the metadata line is       *)
(* missing), the number of option lines, and the answer letter ("" when    *)
(* the block has none).                                                    *)
(***************************************************************************)
Block(num, topic, nopts, letter) ==
    [num |-> num, topic |-> topic, nopts |-> nopts, letter |-> letter,
     empty |-> FALSE]

\* The block of a header that only white space follows up to the end of
\* the document: split() returns the empty string for it.
EmptyBlock(num) ==
    [num |-> num, topic |-> "", nopts |-> 0, letter |-> "", empty |-> TRUE]

\* The documents the server may return: a well-formed bank of three
\* questions, a bank in which one header number occurs twice and one block
\* has neither topic nor answer letter, a bank of a single question, and a
\* document without any question block (for instance an HTML fallback page
\* served with status 200).  "docS" names the document whose blocks the
\* variable served holds.
DocNames == {"docA", "docB", "docC", "docE"}

DocBlocks(d) ==
    CASE d = "docA" -> << Block(1, "Algebra", 2, "A"),
                          Block(2, "Algebra", 2, "B"),
                          Block(3, "Geometry", 2, "B") >>
      [] d = "docB" -> << Block(7, "Algebra", 2, "B"),
                          Block(7, "", 2, "") >>
      [] d = "docC" -> << Block(5, "Algebra", 2, "B") >>
      [] d = "docS" -> served
      [] OTHER      -> << >>

\* charCodeAt(0) - 65 of the answer letter.
LetterIndex(letter) ==
    CASE letter = "A" -> 0
      [] letter = "B" -> 1
      [] letter = "C" -> 2
      [] letter = "D" -> 3
      [] OTHER        -> 4

\* One question block to one Question (id `q-${num}`, answer letter
\* defaulting to 'A', topic undefined when empty).
ParseBlock(b) ==
    [id |-> b.num,
     options |-> b.nopts,
     correctAnswerIndex |-> LetterIndex(IF b.letter = "" THEN "A" ELSE b.letter),
     topic |-> IF b.topic = "" THEN None ELSE b.topic]

SkippedIfNoOptions(block) == block.empty \/ block.nopts = 0

\* if (!block) continue
Skipped(block) == block.empty

\* The loop over the parts of the split document: one push per block that
\* is not skipped.
RECURSIVE ParseFrom(_, _, _)
ParseFrom(blocks, i, parsed) ==
    IF i > Len(blocks)
    THEN parsed
    ELSE ParseFrom(blocks, i + 1,
                   IF Skipped(blocks[i])
                   THEN parsed
                   ELSE Append(parsed, ParseBlock(blocks[i])))

parseMarkdownQuestions(d) == ParseFrom(DocBlocks(d), 1, << >>)

\* SHA-256 hex digest of the document text.  The digest is not computed; it
\* is a table that gives each document of DocNames its own digest, as
\* SHA-256 does for all practical purposes.
computeContentHash(d) ==
    CASE d = "docA" -> "3f5a"
      [] d = "docB" -> "9c1e"
      [] d = "docC" -> "b7d2"
      [] d = "docS" -> "5e7d"
      [] OTHER      -> "e3b0"


storeVars == << storeMain, storeMeta >>
syncVars == << sync, otherSyncs >>
sessionVars == << questions, answers, flagged, currentQuestionIndex, timeLeft,
                  cheatingAttempts >>
uiVars == << examState, showCheatingWarning, isSubmitting, showSubmitModal,
             reviewMode, reviewFilter, timedOut >>
firebaseVars == << authUser, authEvents, profileLoads, adminConfirmed >>
appState == << firebaseUid, currentUser, isTeacherAuth, authLoading,
               showLoginModal >>
modalVars == << isLoggingIn, failedAttempts, lockoutUntil, logins, failures >>
appVars == << path, firebaseVars, appState, modalVars >>
vars == << storeMain, storeMeta, remoteHistory, sync, otherSyncs,
           examState, questions, bankSize, answers, flagged,
           currentQuestionIndex, timeLeft, cheatingAttempts,
           showCheatingWarning, isSyncing, isSubmitting, showSubmitModal,
           reviewMode, reviewFilter, history, timedOut, pendingStarts, submits,
           alertShown, session, focusLosses, mounted, served, appVars >>

EmptyMap == [x \in {} |-> 0]

\* The accounts of Firebase Auth that are followed: one with a document in
\* the collection admins, one with a profile in the collection users, and
\* one with neither.
Uids == {"admin", "student", "member"}

\* getDoc(doc(db, 'admins', uid)).exists()
InAdmins(uid) == uid = "admin"

\* getDoc(doc(db, 'users', uid)).exists()
HasProfile(uid) == uid = "student"

\* AppContent and AuthModal while the student "student" is in the portal:
\* signed in, the profile loaded, the route /exam, the modal closed.
AppAtExam ==
    /\ authUser = "student"
    /\ authEvents = << >>
    /\ profileLoads = << >>
    /\ path = "/exam"
    /\ firebaseUid = "student"
    /\ currentUser = "student"
    /\ isTeacherAuth = FALSE
    /\ authLoading = FALSE
    /\ showLoginModal = FALSE
    /\ isLoggingIn = FALSE
    /\ failedAttempts = 0
    /\ lockoutUntil = 0
    /\ logins = << >>
    /\ adminConfirmed = {}
    /\ failures = 0

\* Values of the Content Store: store.get(key) gives undefined for a key
\* that was never put.
NoBank == [stored |-> FALSE, list |-> << >>]
Bank(qs) == [stored |-> TRUE, list |-> qs]
NoMeta == [stored |-> FALSE, version |-> ""]
Meta(v) == [stored |-> TRUE, version |-> v]

Tabs == {"self", "other"}

\* A sync run before its first await.
NoLive == [ok |-> FALSE, value |-> NoBank]
SyncStart == [pc |-> "fetch", markdown |-> None, localMeta |-> NoMeta,
              live |-> NoLive]
SyncIdle == [pc |-> "idle", markdown |-> None, localMeta |-> NoMeta,
             live |-> NoLive]
\* A sync run that has returned (its locals are gone).
SyncDone == [pc |-> "done", markdown |-> None, localMeta |-> NoMeta,
             live |-> NoLive]

\* What the Content Store may hold when the page is opened: nothing (first
\* visit) or the bank and metadata an earlier visit stored for a document.
StoredBefore ==
    {<< NoBank, NoMeta >>} \cup
    {<< Bank(parseMarkdownQuestions(d)), Meta(computeContentHash(d)) >> :
        d \in {"docA"}}

Init ==
    /\ \E s \in StoredBefore : storeMain = s[1] /\ storeMeta = s[2]
    /\ remoteHistory = << >>
    /\ sync = [t \in Tabs |-> IF t = "self" THEN SyncStart ELSE SyncIdle]
    /\ otherSyncs = 0
    /\ examState = "intro"
    /\ questions = << >>
    /\ bankSize = 0
    /\ answers = EmptyMap
    /\ flagged = {}
    /\ currentQuestionIndex = 0
    /\ timeLeft = ExamDuration
    /\ cheatingAttempts = 0
    /\ showCheatingWarning = FALSE
    /\ isSyncing = TRUE
    /\ isSubmitting = FALSE
    /\ showSubmitModal = FALSE
    /\ reviewMode = FALSE
    /\ reviewFilter = "all"
    /\ history = << >>
    /\ timedOut = FALSE
    /\ pendingStarts = 0
    /\ submits = << >>
    /\ alertShown = None
    /\ session = 0
    /\ focusLosses = 0
    /\ mounted = TRUE
    /\ AppAtExam
    /\ served = << >>

\* The state in which initData has returned after it stored, or found
\* stored, the bank of document d: a reachable state of Spec, in which the
\* Start button is enabled if d has questions.
InitSynced(d) ==
    /\ storeMain = Bank(parseMarkdownQuestions(d))
    /\ storeMeta = Meta(computeContentHash(d))
    /\ bankSize = Len(parseMarkdownQuestions(d))
    /\ remoteHistory = << >>
    /\ sync = [t \in Tabs |-> IF t = "self" THEN SyncDone ELSE SyncIdle]
    /\ otherSyncs = 0
    /\ examState = "intro"
    /\ questions = << >>
    /\ answers = EmptyMap
    /\ flagged = {}
    /\ currentQuestionIndex = 0
    /\ timeLeft = ExamDuration
    /\ cheatingAttempts = 0
    /\ showCheatingWarning = FALSE
    /\ isSyncing = FALSE
    /\ isSubmitting = FALSE
    /\ showSubmitModal = FALSE
    /\ reviewMode = FALSE
    /\ reviewFilter = "all"
    /\ history = << >>
    /\ timedOut = FALSE
    /\ pendingStarts = 0
    /\ submits = << >>
    /\ alertShown = None
    /\ session = 0
    /\ focusLosses = 0
    /\ mounted = TRUE
    /\ AppAtExam
    /\ served = << >>

(***************************************************************************)
(* Bank Synchronizer: initData.  Each await is a step; a storage or        *)
(* network call either succeeds or rejects, and a rejection inside the     *)
(* first try block skips the rest of that block.                           *)
(***************************************************************************)
FetchOutcomes == DocNames \cup {"throws", "notOk"}

\* await fetch('/questions/bank.md'), response.text(), computeContentHash
SyncFetchSkipsBankRead(t) ==
    /\ sync[t].pc = "fetch"
    /\ \E r \in FetchOutcomes :
         sync' = [sync EXCEPT ![t] =
                    IF r \in DocNames
                    THEN [pc |-> "loadMeta", markdown |-> r,
                          localMeta |-> NoMeta, live |-> NoLive]
                    ELSE [pc |-> "loadHistory", markdown |-> None,
                          localMeta |-> NoMeta, live |-> NoLive]]
    /\ UNCHANGED << storeVars, remoteHistory, otherSyncs, sessionVars, uiVars,
                    bankSize, isSyncing, history, pendingStarts, submits,
                    alertShown, session, focusLosses, mounted, served, appVars >>

SyncFetch(t) ==
    /\ sync[t].pc = "fetch"
    /\ \E r \in FetchOutcomes :
         sync' = [sync EXCEPT ![t] =
                    IF r \in DocNames
                    THEN [pc |-> "loadMeta", markdown |-> r,
                          localMeta |-> NoMeta, live |-> NoLive]
                    ELSE [pc |-> "loadBank", markdown |-> None,
                          localMeta |-> NoMeta, live |-> NoLive]]
    /\ UNCHANGED << storeVars, remoteHistory, otherSyncs, sessionVars, uiVars,
                    bankSize, isSyncing, history, pendingStarts, submits,
                    alertShown, session, focusLosses, mounted, served, appVars >>

NeedsUpdateAlways(localMeta, contentHash) == TRUE

\* if (!localMeta || localMeta.version !== contentHash)
NeedsUpdate(localMeta, contentHash) ==
    ~localMeta.stored \/ localMeta.version # contentHash

\* await dbService.loadLiveMetadata() and the comparison of the fingerprints
SyncLoadMeta(t) ==
    /\ sync[t].pc = "loadMeta"
    /\ \E ok \in BOOLEAN :
         sync' = [sync EXCEPT ![t] =
                    IF ok
                    THEN [pc |-> IF NeedsUpdate(storeMeta,
                                        computeContentHash(sync[t].markdown))
                                 THEN "saveBank" ELSE "loadBank",
                          markdown |-> sync[t].markdown,
                          localMeta |-> storeMeta, live |-> NoLive]
                    ELSE [pc |-> "loadBank",
                          markdown |-> sync[t].markdown,
                          localMeta |-> NoMeta, live |-> NoLive]]
    /\ UNCHANGED << storeVars, remoteHistory, otherSyncs, sessionVars, uiVars,
                    bankSize, isSyncing, history, pendingStarts, submits,
                    alertShown, session, focusLosses, mounted, served, appVars >>

\* await dbService.saveLiveBank(parsed): idbSave(STORES.LIVE, questions, 'main')
SyncSaveBank(t) ==
    /\ sync[t].pc = "saveBank"
    /\ \E ok \in BOOLEAN :
         IF ok
         THEN /\ storeMain' = Bank(parseMarkdownQuestions(sync[t].markdown))
              /\ sync' = [sync EXCEPT ![t].pc = "saveMeta"]
         ELSE /\ storeMain' = storeMain
              /\ sync' = [sync EXCEPT ![t].pc = "loadBank"]
    /\ UNCHANGED << storeMeta, remoteHistory, otherSyncs, sessionVars, uiVars,
                    bankSize, isSyncing, history, pendingStarts, submits,
                    alertShown, session, focusLosses, mounted, served, appVars >>

\* await dbService.saveLiveMetadata({version: contentHash, ...})
SyncSaveMeta(t) ==
    /\ sync[t].pc = "saveMeta"
    /\ \E ok \in BOOLEAN :
         storeMeta' = IF ok
                      THEN Meta(computeContentHash(sync[t].markdown))
                      ELSE storeMeta
    /\ sync' = [sync EXCEPT ![t].pc = "loadBank"]
    /\ UNCHANGED << storeMain, remoteHistory, otherSyncs, sessionVars, uiVars,
                    bankSize, isSyncing, history, pendingStarts, submits,
                    alertShown, session, focusLosses, mounted, served, appVars >>

\* const live = await dbService.loadLiveBank(); setBankSize(live.length).
\* The other tab's run sets the state of that tab's component.
SyncLoadBank(t) ==
    /\ sync[t].pc = "loadBank"
    /\ \E ok \in BOOLEAN :
         /\ bankSize' = IF ok /\ t = "self" /\ mounted /\ storeMain.stored
                        THEN Len(storeMain.list) ELSE bankSize
         /\ sync' = [sync EXCEPT ![t].pc = "loadHistory",
                                 ![t].live = IF ok
                                             THEN [ok |-> TRUE, value |-> storeMain]
                                             ELSE NoLive]
    /\ UNCHANGED << storeVars, remoteHistory, otherSyncs, sessionVars, uiVars,
                    isSyncing, history, pendingStarts, submits, alertShown,
                    session, focusLosses,
                    mounted, served, appVars >>

SyncLoadHistoryKeepsIndicator(t) ==
    /\ sync[t].pc = "loadHistory"
    /\ \E ok \in BOOLEAN :
         /\ history' = IF ok /\ t = "self" /\ mounted
                       THEN remoteHistory ELSE history
         /\ isSyncing' = IF ok /\ t = "self" /\ mounted THEN FALSE ELSE isSyncing
    /\ sync' = [sync EXCEPT ![t] = SyncDone]
    /\ UNCHANGED << storeVars, remoteHistory, otherSyncs, sessionVars, uiVars,
                    bankSize, pendingStarts, submits, alertShown, session,
                    focusLosses,
                    mounted, served, appVars >>

\* const savedHistory = await dbService.loadHistory(uid); setHistory;
\* setIsSyncing(false)
SyncLoadHistory(t) ==
    /\ sync[t].pc = "loadHistory"
    /\ \E ok \in BOOLEAN :
         history' = IF ok /\ t = "self" /\ mounted
                    THEN remoteHistory ELSE history
    /\ isSyncing' = IF t = "self" /\ mounted THEN FALSE ELSE isSyncing
    /\ sync' = [sync EXCEPT ![t] = SyncDone]
    /\ UNCHANGED << storeVars, remoteHistory, otherSyncs, sessionVars, uiVars,
                    bankSize, pendingStarts, submits, alertShown, session,
                    focusLosses,
                    mounted, served, appVars >>

\* The page is opened in another tab: its component mounts and runs initData.
OtherTabOpens ==
    /\ otherSyncs < MaxOtherSyncs
    /\ sync["other"].pc \in {"idle", "done"}
    /\ sync' = [sync EXCEPT !["other"] = SyncStart]
    /\ otherSyncs' = otherSyncs + 1
    /\ UNCHANGED << storeVars, remoteHistory, sessionVars, uiVars, bankSize,
                    isSyncing, history, pendingStarts, submits, alertShown,
                    session, focusLosses,
                    mounted, served, appVars >>

initData ==
    \/ \E t \in Tabs : SyncFetch(t)
    \/ \E t \in Tabs : SyncLoadMeta(t)
    \/ \E t \in Tabs : SyncSaveBank(t)
    \/ \E t \in Tabs : SyncSaveMeta(t)
    \/ \E t \in Tabs : SyncLoadBank(t)
    \/ \E t \in Tabs : SyncLoadHistory(t)

(***************************************************************************)
(* Session State Machine: startExam.                                       *)
(***************************************************************************)
Swap(list, i, j) ==
    [k \in 1..Len(list) |->
        IF k = i THEN list[j] ELSE IF k = j THEN list[i] ELSE list[k]]

\* The values Math.floor(Math.random() * (i + 1)) can take in the loop of
\* startExam, written for positions 1..n: for every i in n..2 a j in 1..i.
ShuffleChoices(n) ==
    {js \in [2..n -> 1..n] : \A i \in 2..n : js[i] <= i}

RECURSIVE ShuffleFrom(_, _, _)
\* for (let i = shuffled.length - 1; i > 0; i--) swap shuffled[i], shuffled[j]
ShuffleFrom(list, i, js) ==
    IF i < 2 THEN list ELSE ShuffleFrom(Swap(list, i, js[i]), i - 1, js)

FisherYates(list, js) == ShuffleFrom(list, Len(list), js)

\* The signs the comparator () => 0.5 - Math.random() can return in the
\* comparisons of one sort of n elements, each sign as likely as the other.
CompareOutcomes(n) == [1..((n * (n - 1)) \div 2) -> {-1, 1}]

RECURSIVE SinkLeft(_, _, _, _)
\* Insertion of the element at position j into the sorted prefix: it moves
\* left while the comparator says its left neighbour is greater.  c is the
\* number of the next comparison; the result is the list and the next c.
SinkLeft(list, j, cs, c) ==
    IF j = 1 THEN << list, c >>
    ELSE IF cs[c] > 0 THEN SinkLeft(Swap(list, j - 1, j), j - 1, cs, c + 1)
    ELSE << list, c + 1 >>

RECURSIVE InsertionSortFrom(_, _, _, _)
InsertionSortFrom(list, i, cs, c) ==
    IF i > Len(list) THEN list
    ELSE InsertionSortFrom(SinkLeft(list, i, cs, c)[1], i + 1, cs,
                           SinkLeft(list, i, cs, c)[2])

\* [...allQuestions].sort(() => 0.5 - Math.random()) of the older startExam.
\* The order a sort gives under an inconsistent comparator is the engine's
\* choice; engines sort arrays this short by insertion.  Whatever the
\* algorithm, k comparisons give each order a probability that is a
\* multiple of 1/2^k.
ComparatorSort(list, cs) == InsertionSortFrom(list, 2, cs, 1)

Min(a, b) == IF a < b THEN a ELSE b

\* shuffled.slice(0, 50)
Slice(list, n) == SubSeq(list, 1, Min(n, Len(list)))

\* onClick={startExam} of the Start button, disabled={isSyncing || bankSize
\* === 0}; the call runs up to its await dbService.loadLiveBank().
StartExamClick ==
    /\ mounted
    /\ examState = "intro"
    /\ ~isSyncing
    /\ bankSize # 0
    /\ ~timedOut
    /\ pendingStarts < MaxPendingStarts
    /\ pendingStarts' = pendingStarts + 1
    /\ UNCHANGED << storeVars, remoteHistory, syncVars, sessionVars, uiVars,
                    bankSize, isSyncing, history, submits, alertShown, session,
                    focusLosses,
                    mounted, served, appVars >>

EmptyOnlyIfAbsent(bank) == ~bank.stored

\* if (!allQuestions || allQuestions.length === 0)
BankIsEmpty(bank) == ~bank.stored \/ Len(bank.list) = 0

startExamKeepsCounter ==
    /\ answers' = EmptyMap
    /\ flagged' = {}
    /\ currentQuestionIndex' = 0
    /\ cheatingAttempts' = cheatingAttempts
    /\ timeLeft' = ExamDuration
    /\ reviewMode' = FALSE
    /\ isSubmitting' = FALSE
    /\ showSubmitModal' = FALSE
    /\ examState' = "active"

\* The setters startExam calls after setQuestions(selected).
startExamResets ==
    /\ answers' = EmptyMap
    /\ flagged' = {}
    /\ currentQuestionIndex' = 0
    /\ cheatingAttempts' = 0
    /\ timeLeft' = ExamDuration
    /\ reviewMode' = FALSE
    /\ isSubmitting' = FALSE
    /\ showSubmitModal' = FALSE
    /\ examState' = "active"

\* The rest of startExam after loadLiveBank() has settled.  The setters of
\* a component that was unmounted meanwhile have no effect.
StartExamLoaded ==
    /\ pendingStarts > 0
    /\ ~timedOut
    /\ pendingStarts' = pendingStarts - 1
    /\ \E ok \in BOOLEAN :
         IF ~ok
         THEN /\ alertShown' = "Failed to start exam. Data corruption detected."
              /\ UNCHANGED << sessionVars, uiVars, session >>
         ELSE IF BankIsEmpty(storeMain)
         THEN /\ alertShown' = "The question bank is empty."
              /\ UNCHANGED << sessionVars, uiVars, session >>
         ELSE IF ~mounted
         THEN UNCHANGED << sessionVars, uiVars, session, alertShown >>
         ELSE /\ session < MaxSessions
              /\ \E js \in ShuffleChoices(Len(storeMain.list)) :
                   questions' = Slice(FisherYates(storeMain.list, js), SelectCount)
              /\ startExamResets
              /\ session' = session + 1
              /\ UNCHANGED << showCheatingWarning, reviewFilter, timedOut,
                              alertShown >>
    /\ UNCHANGED << storeVars, remoteHistory, syncVars, bankSize, isSyncing,
                    history, submits, focusLosses,
                    mounted, served, appVars >>

(***************************************************************************)
(* While active: countdown, focus loss, answers, flags, navigation.        *)
(***************************************************************************)
\* The setInterval callback of the timer effect.  The interval exists while
\* examState is 'active' and isSubmitting is false, and the callback clears
\* it when it sets timedOut.  A performSubmit that waits for its 500 ms
\* timeout made isSubmitting true, which cleared the interval; an interval
\* created after that fires 1000 ms later at the earliest, after the
\* timeout: no tick while a submission is in its delay.
TimeIsUpAtZero(prev) == prev <= 0

\* if (prev <= 1) in the updater of the interval callback
TimeIsUp(prev) == prev <= 1

Tick ==
    /\ mounted
    /\ examState = "active"
    /\ ~isSubmitting
    /\ ~timedOut
    /\ \A p \in DOMAIN submits : submits[p].pc # "delay"
    /\ IF TimeIsUp(timeLeft)
       THEN timeLeft' = 0 /\ timedOut' = TRUE
       ELSE timeLeft' = timeLeft - 1 /\ timedOut' = timedOut
    /\ UNCHANGED << storeVars, remoteHistory, syncVars, questions, answers,
                    flagged, currentQuestionIndex, cheatingAttempts, examState,
                    showCheatingWarning, isSubmitting, showSubmitModal,
                    reviewMode, reviewFilter, bankSize, isSyncing, history,
                    pendingStarts, submits, alertShown, session, focusLosses,
                    mounted, served, appVars >>

\* The synchronous part of performSubmit: setIsSubmitting(true);
\* setShowSubmitModal(false); then await the 500 ms timeout.
NoResult == [session |-> 0, score |-> 0, total |-> 0, percentage |-> 0,
             topicStats |-> << >>]

performSubmitCall(auto) ==
    /\ isSubmitting' = TRUE
    /\ showSubmitModal' = FALSE
    /\ submits' = Append(submits, [auto |-> auto, pc |-> "delay",
                                   result |-> NoResult])

\* useEffect(() => { if (timedOut) { setTimedOut(false); performSubmit(true) } })
\* A passive effect: React runs it after the render that set timedOut was
\* committed, and before the next render.
TimedOutEffect ==
    /\ mounted
    /\ timedOut
    /\ timedOut' = FALSE
    /\ performSubmitCall(TRUE)
    /\ UNCHANGED << storeVars, remoteHistory, syncVars, sessionVars, examState,
                    showCheatingWarning, reviewMode, reviewFilter, bankSize,
                    isSyncing, history, pendingStarts, alertShown, session,
                    focusLosses,
                    mounted, served, appVars >>

BlurWhileSubmittingOnly == isSubmitting

\* if (showSubmitModal || isSubmitting) return;
handleBlurReturns == showSubmitModal \/ isSubmitting

\* window 'blur'.  handleBlur is registered only while examState is 'active'.
WindowBlur ==
    /\ mounted
    /\ ~timedOut
    /\ focusLosses < MaxBlur
    /\ focusLosses' = focusLosses + 1
    /\ IF examState = "active" /\ ~handleBlurReturns
       THEN /\ cheatingAttempts' = cheatingAttempts + 1
            /\ showCheatingWarning' = TRUE
       ELSE UNCHANGED << cheatingAttempts, showCheatingWarning >>
    /\ UNCHANGED << storeVars, remoteHistory, syncVars, questions, answers,
                    flagged, currentQuestionIndex, timeLeft, examState,
                    isSubmitting, showSubmitModal, reviewMode, reviewFilter,
                    timedOut, bankSize, isSyncing, history, pendingStarts,
                    submits, alertShown, session, mounted, served, appVars >>

\* onClick={() => setShowCheatingWarning(false)} of 'Resume Exam'
ResumeExam ==
    /\ mounted
    /\ examState = "active"
    /\ showCheatingWarning
    /\ ~timedOut
    /\ showCheatingWarning' = FALSE
    /\ UNCHANGED << storeVars, remoteHistory, syncVars, sessionVars, examState,
                    isSubmitting, showSubmitModal, reviewMode, reviewFilter,
                    timedOut, bankSize, isSyncing, history, pendingStarts,
                    submits, alertShown, session, focusLosses,
                    mounted, served, appVars >>

\* const currentQ = questions[currentQuestionIndex] (0-based in the code)
HasCurrentQ == currentQuestionIndex + 1 \in DOMAIN questions
CurrentQ == questions[currentQuestionIndex + 1]

\* [k |-> v] merged into the map m: ({ ...prev, [currentQ.id]: idx })
Put(m, k, v) == [x \in DOMAIN m \cup {k} |-> IF x = k THEN v ELSE m[x]]

SelectOptionInAnyPhase ==
    /\ mounted
    /\ HasCurrentQ
    /\ ~timedOut
    /\ \E idx \in 0..(CurrentQ.options - 1) :
         answers' = Put(answers, CurrentQ.id, idx)
    /\ UNCHANGED << storeVars, remoteHistory, syncVars, questions, flagged,
                    currentQuestionIndex, timeLeft, cheatingAttempts, uiVars,
                    bankSize, isSyncing, history, pendingStarts, submits,
                    alertShown, session, focusLosses, mounted, served, appVars >>

\* onClick={() => setAnswers(prev => ({ ...prev, [currentQ.id]: idx }))}
SelectOption ==
    /\ mounted
    /\ examState = "active"
    /\ HasCurrentQ
    /\ ~timedOut
    /\ \E idx \in 0..(CurrentQ.options - 1) :
         answers' = Put(answers, CurrentQ.id, idx)
    /\ UNCHANGED << storeVars, remoteHistory, syncVars, questions, flagged,
                    currentQuestionIndex, timeLeft, cheatingAttempts, uiVars,
                    bankSize, isSyncing, history, pendingStarts, submits,
                    alertShown, session, focusLosses, mounted, served, appVars >>

\* The Flag button: add currentQ.id to, or delete it from, a copy of flagged.
ToggleFlag ==
    /\ mounted
    /\ examState = "active"
    /\ HasCurrentQ
    /\ ~timedOut
    /\ flagged' = IF CurrentQ.id \in flagged
                  THEN flagged \ {CurrentQ.id}
                  ELSE flagged \cup {CurrentQ.id}
    /\ UNCHANGED << storeVars, remoteHistory, syncVars, questions, answers,
                    currentQuestionIndex, timeLeft, cheatingAttempts, uiVars,
                    bankSize, isSyncing, history, pendingStarts, submits,
                    alertShown, session, focusLosses, mounted, served, appVars >>

\* The navigator buttons: setCurrentQuestionIndex(idx)
JumpTo ==
    /\ mounted
    /\ examState = "active"
    /\ HasCurrentQ
    /\ ~timedOut
    /\ \E idx \in 0..(Len(questions) - 1) : currentQuestionIndex' = idx
    /\ UNCHANGED << storeVars, remoteHistory, syncVars, questions, answers,
                    flagged, timeLeft, cheatingAttempts, uiVars, bankSize,
                    isSyncing, history, pendingStarts, submits, alertShown,
                    session, focusLosses,
                    mounted, served, appVars >>

\* 'Previous': setCurrentQuestionIndex(prev => Math.max(0, prev - 1)),
\* disabled={currentQuestionIndex === 0}
PreviousQuestion ==
    /\ mounted
    /\ examState = "active"
    /\ HasCurrentQ
    /\ ~timedOut
    /\ currentQuestionIndex # 0
    /\ currentQuestionIndex' =
         IF currentQuestionIndex - 1 > 0 THEN currentQuestionIndex - 1 ELSE 0
    /\ UNCHANGED << storeVars, remoteHistory, syncVars, questions, answers,
                    flagged, timeLeft, cheatingAttempts, uiVars, bankSize,
                    isSyncing, history, pendingStarts, submits, alertShown,
                    session, focusLosses,
                    mounted, served, appVars >>

\* handleNext: on the last question it requests submission, otherwise
\* setCurrentQuestionIndex(prev => Math.min(questions.length - 1, prev + 1))
handleNext ==
    /\ mounted
    /\ examState = "active"
    /\ HasCurrentQ
    /\ ~timedOut
    /\ IF currentQuestionIndex = Len(questions) - 1
       THEN /\ showSubmitModal' = TRUE
            /\ UNCHANGED currentQuestionIndex
       ELSE /\ currentQuestionIndex' =
                 Min(Len(questions) - 1, currentQuestionIndex + 1)
            /\ UNCHANGED showSubmitModal
    /\ UNCHANGED << storeVars, remoteHistory, syncVars, questions, answers,
                    flagged, timeLeft, cheatingAttempts, examState,
                    showCheatingWarning, isSubmitting, reviewMode, reviewFilter,
                    timedOut, bankSize, isSyncing, history, pendingStarts,
                    submits, alertShown, session, focusLosses,
                    mounted, served, appVars >>

(***************************************************************************)
(* Submission.                                                             *)
(***************************************************************************)
\* 'Finish Exam': handleRequestSubmit
handleRequestSubmit ==
    /\ mounted
    /\ examState = "active"
    /\ HasCurrentQ
    /\ ~timedOut
    /\ showSubmitModal' = TRUE
    /\ UNCHANGED << storeVars, remoteHistory, syncVars, sessionVars, examState,
                    showCheatingWarning, isSubmitting, reviewMode, reviewFilter,
                    timedOut, bankSize, isSyncing, history, pendingStarts,
                    submits, alertShown, session, focusLosses,
                    mounted, served, appVars >>

CancelSubmitResetsCounter ==
    /\ mounted
    /\ examState = "active"
    /\ HasCurrentQ
    /\ showSubmitModal
    /\ ~isSubmitting
    /\ ~timedOut
    /\ showSubmitModal' = FALSE
    /\ cheatingAttempts' = 0
    /\ UNCHANGED << storeVars, remoteHistory, syncVars, questions, answers,
                    flagged, currentQuestionIndex, timeLeft, examState,
                    showCheatingWarning, isSubmitting, reviewMode, reviewFilter,
                    timedOut, bankSize, isSyncing, history, pendingStarts,
                    submits, alertShown, session, focusLosses,
                    mounted, served, appVars >>

\* 'Cancel' of the submit modal: setShowSubmitModal(false), disabled={isSubmitting}
CancelSubmit ==
    /\ mounted
    /\ examState = "active"
    /\ HasCurrentQ
    /\ showSubmitModal
    /\ ~isSubmitting
    /\ ~timedOut
    /\ showSubmitModal' = FALSE
    /\ UNCHANGED << storeVars, remoteHistory, syncVars, sessionVars, examState,
                    showCheatingWarning, isSubmitting, reviewMode, reviewFilter,
                    timedOut, bankSize, isSyncing, history, pendingStarts,
                    submits, alertShown, session, focusLosses,
                    mounted, served, appVars >>

\* 'Submit' of the submit modal: onClick={() => performSubmit()},
\* disabled={isSubmitting}.  The button is the one of the last committed
\* render, so the click is also handled between the commit of the render
\* that set timedOut and the run of the timedOut effect.
ConfirmSubmit ==
    /\ mounted
    /\ examState = "active"
    /\ HasCurrentQ
    /\ showSubmitModal
    /\ ~isSubmitting
    /\ performSubmitCall(FALSE)
    /\ UNCHANGED << storeVars, remoteHistory, syncVars, sessionVars, examState,
                    showCheatingWarning, reviewMode, reviewFilter, timedOut,
                    bankSize, isSyncing, history, pendingStarts, alertShown,
                    session, focusLosses,
                    mounted, served, appVars >>

TopicOfRaw(q) == q.topic

\* q.topic || 'General'
TopicOf(q) == IF q.topic = None THEN "General" ELSE q.topic

IsCorrectIfAnswered(q, ans) == q.id \in DOMAIN ans

\* currentAnswers[q.id] === q.correctAnswerIndex
IsCorrect(q, ans) == q.id \in DOMAIN ans /\ ans[q.id] = q.correctAnswerIndex

\* One turn of the forEach of calculateResults: the entry of the question's
\* topic is created at the end of the list, or counted up where it is.
TallyStep(prev, q, c) ==
    IF \A k \in DOMAIN prev : prev[k].topic # TopicOf(q)
    THEN Append(prev, [topic |-> TopicOf(q), total |-> 1, correct |-> c])
    ELSE [k \in DOMAIN prev |->
            IF prev[k].topic = TopicOf(q)
            THEN [topic |-> prev[k].topic,
                  total |-> prev[k].total + 1,
                  correct |-> prev[k].correct + c]
            ELSE prev[k]]

RECURSIVE Tally(_, _, _)
\* topicStats after the first n questions, as the list of its entries
\* [topic, total, correct] in the order the keys were inserted.
Tally(qs, ans, n) ==
    IF n = 0
    THEN << >>
    ELSE TallyStep(Tally(qs, ans, n - 1), qs[n],
                   IF IsCorrect(qs[n], ans) THEN 1 ELSE 0)

\* (correct / n) * 100 is computed in binary64: the quotient is rounded, and
\* so is the product.  For n <= 50 (a session has at most 50 questions) the
\* product lies on the same side of every k + 0.5 as 100 * correct / n, or
\* on it, except for 23 / 40: 0.575 * 100 gives 57.49999999999999, below
\* the 57.5 of the exact quotient.
ProductBelowHalf(correct, n) == << correct, n >> \in {<< 23, 40 >>}

\* Math.round((correct / n) * 100) for 0 <= correct <= n, 0 < n <= 50:
\* Math.round takes the integer nearest to the product, a tie upwards.
RoundPercent(correct, n) ==
    IF ProductBelowHalf(correct, n)
    THEN ((200 * correct + n) \div (2 * n)) - 1
    ELSE (200 * correct + n) \div (2 * n)

NumCorrect(qs, ans) == Cardinality({k \in 1..Len(qs) : IsCorrect(qs[k], ans)})

\* calculateResults, on questionsRef.current and answersRef.current.  The
\* field session stands for the fields email and date: it tells the
\* Results of one session from those of another.
calculateResults ==
    [session |-> session,
     score |-> NumCorrect(questions, answers),
     total |-> Len(questions),
     percentage |-> IF Len(questions) > 0
                    THEN RoundPercent(NumCorrect(questions, answers),
                                      Len(questions))
                    ELSE 0,
     topicStats |-> Tally(questions, answers, Len(questions))]

SubmitDelayDoneAppendsLast ==
    /\ ~timedOut
    /\ \E p \in DOMAIN submits :
         /\ submits[p].pc = "delay"
         /\ history' = Append(history, calculateResults)
         /\ submits' = [submits EXCEPT ![p] =
                          [auto |-> submits[p].auto, pc |-> "save",
                           result |-> calculateResults]]
    /\ UNCHANGED << storeVars, remoteHistory, syncVars, sessionVars, uiVars,
                    bankSize, isSyncing, pendingStarts, alertShown, session,
                    focusLosses,
                    mounted, served, appVars >>

\* performSubmit after the 500 ms timeout: result = calculateResults();
\* setHistory(prev => [result, ...prev]); call dbService.saveHistory.
SubmitDelayDone ==
    /\ ~timedOut
    /\ \E p \in DOMAIN submits :
         /\ submits[p].pc = "delay"
         /\ history' = IF mounted
                       THEN << calculateResults >> \o history
                       ELSE history
         /\ submits' = [submits EXCEPT ![p] =
                          [auto |-> submits[p].auto, pc |-> "save",
                           result |-> calculateResults]]
    /\ UNCHANGED << storeVars, remoteHistory, syncVars, sessionVars, uiVars,
                    bankSize, isSyncing, pendingStarts, alertShown, session,
                    focusLosses,
                    mounted, served, appVars >>

Remove(seq, p) == [k \in 1..(Len(seq) - 1) |-> IF k < p THEN seq[k] ELSE seq[k + 1]]

SubmitSaveDoneFailureAborts ==
    /\ ~timedOut
    /\ \E p \in DOMAIN submits :
         /\ submits[p].pc = "save"
         /\ \E ok \in BOOLEAN :
              /\ remoteHistory' = IF ok
                                  THEN << submits[p].result >> \o remoteHistory
                                  ELSE remoteHistory
              /\ examState' = IF ok THEN "result" ELSE examState
         /\ submits' = Remove(submits, p)
    /\ reviewMode' = FALSE
    /\ UNCHANGED << storeVars, syncVars, sessionVars, showCheatingWarning,
                    isSubmitting, showSubmitModal, reviewFilter, timedOut,
                    bankSize, isSyncing, history, pendingStarts, alertShown,
                    session, focusLosses,
                    mounted, served, appVars >>

\* performSubmit after saveHistory settled (addDoc resolved, or rejected and
\* caught): setExamState('result'); setReviewMode(false).
SubmitSaveDone ==
    /\ ~timedOut
    /\ \E p \in DOMAIN submits :
         /\ submits[p].pc = "save"
         /\ \E ok \in BOOLEAN :
              remoteHistory' = IF ok
                               THEN << submits[p].result >> \o remoteHistory
                               ELSE remoteHistory
         /\ submits' = Remove(submits, p)
    /\ examState' = IF mounted THEN "result" ELSE examState
    /\ reviewMode' = IF mounted THEN FALSE ELSE reviewMode
    /\ UNCHANGED << storeVars, syncVars, sessionVars, showCheatingWarning,
                    isSubmitting, showSubmitModal, reviewFilter, timedOut,
                    bankSize, isSyncing, history, pendingStarts, alertShown,
                    session, focusLosses,
                    mounted, served, appVars >>

\* 'Dashboard' of the result screen: setExamState('intro'); setQuestions([])
BackToDashboard ==
    /\ mounted
    /\ examState = "result"
    /\ ~reviewMode
    /\ ~timedOut
    /\ examState' = "intro"
    /\ questions' = << >>
    /\ UNCHANGED << storeVars, remoteHistory, syncVars, answers, flagged,
                    currentQuestionIndex, timeLeft, cheatingAttempts,
                    showCheatingWarning, isSubmitting, showSubmitModal,
                    reviewMode, reviewFilter, timedOut, bankSize, isSyncing,
                    history, pendingStarts, submits, alertShown, session,
                    focusLosses,
                    mounted, served, appVars >>

(***************************************************************************)
(* The result screen and the review view (renderResult).                   *)
(***************************************************************************)
\* 'Review Answers': setReviewMode(true); setReviewFilter('all'), and the
\* Mistakes card: setReviewMode(true); setReviewFilter('incorrect').
OpenReview ==
    /\ mounted
    /\ examState = "result"
    /\ ~reviewMode
    /\ ~timedOut
    /\ reviewMode' = TRUE
    /\ \E f \in {"all", "incorrect"} : reviewFilter' = f
    /\ UNCHANGED << storeVars, remoteHistory, syncVars, sessionVars, examState,
                    showCheatingWarning, isSubmitting, showSubmitModal,
                    timedOut, bankSize, isSyncing, history, pendingStarts,
                    submits, alertShown, session, focusLosses,
                    mounted, served, appVars >>

\* The review view reads questions[currentQuestionIndex].id while it
\* renders: its buttons exist only if that question exists.
ReviewRendered == examState = "result" /\ reviewMode /\ HasCurrentQ

CloseReviewClearsFlags ==
    /\ mounted
    /\ ReviewRendered
    /\ ~timedOut
    /\ reviewMode' = FALSE
    /\ flagged' = {}
    /\ UNCHANGED << storeVars, remoteHistory, syncVars, questions, answers,
                    currentQuestionIndex, timeLeft, cheatingAttempts, examState,
                    showCheatingWarning, isSubmitting, showSubmitModal,
                    reviewFilter, timedOut, bankSize, isSyncing, history,
                    pendingStarts, submits, alertShown, session, focusLosses,
                    mounted, served, appVars >>

\* The back arrow of the review view: setReviewMode(false)
CloseReview ==
    /\ mounted
    /\ ReviewRendered
    /\ ~timedOut
    /\ reviewMode' = FALSE
    /\ UNCHANGED << storeVars, remoteHistory, syncVars, sessionVars, examState,
                    showCheatingWarning, isSubmitting, showSubmitModal,
                    reviewFilter, timedOut, bankSize, isSyncing, history,
                    pendingStarts, submits, alertShown, session, focusLosses,
                    mounted, served, appVars >>

\* ['all', 'incorrect', 'flagged'].map(f => ... setReviewFilter(f))
SetReviewFilter ==
    /\ mounted
    /\ ReviewRendered
    /\ ~timedOut
    /\ \E f \in {"all", "incorrect", "flagged"} : reviewFilter' = f
    /\ UNCHANGED << storeVars, remoteHistory, syncVars, sessionVars, examState,
                    showCheatingWarning, isSubmitting, showSubmitModal,
                    reviewMode, timedOut, bankSize, isSyncing, history,
                    pendingStarts, submits, alertShown, session, focusLosses,
                    mounted, served, appVars >>

\* isVisible of the sidebar of the review view
IsVisible(q) ==
    \/ reviewFilter = "all"
    \/ reviewFilter = "incorrect" /\ ~IsCorrect(q, answers)
    \/ reviewFilter = "flagged" /\ q.id \in flagged

\* The sidebar buttons of the review view: setCurrentQuestionIndex(idx)
ReviewJumpTo ==
    /\ mounted
    /\ ReviewRendered
    /\ ~timedOut
    /\ \E idx \in 0..(Len(questions) - 1) :
         /\ IsVisible(questions[idx + 1])
         /\ currentQuestionIndex' = idx
    /\ UNCHANGED << storeVars, remoteHistory, syncVars, questions, answers,
                    flagged, timeLeft, cheatingAttempts, uiVars, bankSize,
                    isSyncing, history, pendingStarts, submits, alertShown,
                    session, focusLosses,
                    mounted, served, appVars >>

(***************************************************************************)
(* freemiumConfig: the questions whose review is unlocked.                 *)
(***************************************************************************)
\* Math.min(5, ...): the most mistakes a non-premium student may review
FreeReviewCap == 5

\* Math.ceil(totalMistakes / 2)
CeilHalf(k) == (k + 1) \div 2

\* questions.filter(q => answers[q.id] !== q.correctAnswerIndex)
IncorrectQuestions == SelectSeq(questions, LAMBDA q : ~IsCorrect(q, answers))

\* The value of the useMemo for a student of the given tier: the ids of all
\* questions for a premium student, otherwise the ids of the correct
\* questions and of incorrectQuestions.slice(0, limit).
freemiumConfig(isPremium) ==
    IF examState # "result"
    THEN [allowedIds |-> {}, totalMistakes |-> 0, limit |-> 0]
    ELSE LET totalMistakes == Len(IncorrectQuestions)
             limit == Min(FreeReviewCap, CeilHalf(totalMistakes))
         IN  IF isPremium
             THEN [allowedIds |-> {questions[k].id : k \in DOMAIN questions},
                   totalMistakes |-> totalMistakes,
                   limit |-> totalMistakes]
             ELSE [allowedIds |->
                     {questions[k].id : k \in {j \in DOMAIN questions :
                                                 IsCorrect(questions[j], answers)}}
                     \cup {IncorrectQuestions[k].id : k \in 1..limit},
                   totalMistakes |-> totalMistakes,
                   limit |-> limit]

\* !freemiumConfig.allowedIds.has(q.id): the lock shown on a question
IsRestricted(q, isPremium) == q.id \notin freemiumConfig(isPremium).allowedIds

\* The route changes (browser navigation, or onExit of the Exit button of
\* the intro view) and React unmounts StudentPortal: the cleanup functions
\* of its effects run (clearInterval, removeEventListener), its handlers
\* are gone and its state setters have no effect from now on.  The state
\* cells keep their last values here; nothing reads them any more.  The
\* promises the component's calls wait for are not cancelled.
Unmount ==
    /\ mounted
    /\ ~timedOut
    /\ mounted' = FALSE
    /\ path' = "/"
    /\ UNCHANGED << storeVars, remoteHistory, syncVars, sessionVars, uiVars,
                    bankSize, isSyncing, history, pendingStarts, submits,
                    alertShown, session, focusLosses, served, firebaseVars,
                    appState, modalVars >>

(***************************************************************************)
(* AppContent and the staff form of AuthModal.  StudentPortal is mounted   *)
(* on the route /exam only; the modal is opened from the landing page.     *)
(***************************************************************************)
\* 60000 ms of handleTeacherLogin, in seconds, scaled down.
LockoutSeconds == 2
\* Calls of handleTeacherLogin that may be in flight at the same time.
MaxLogins == 2
\* onAuthStateChanged notifications waiting to be delivered.
MaxAuthEvents == 2
\* Listener callbacks that may be awaiting loadUserProfile at the same time.
MaxProfileLoads == 2
\* Failed staff logins that are followed between two resets of the counter.
MaxFailures == 4

portalVars == << storeVars, remoteHistory, syncVars, sessionVars, uiVars,
                 bankSize, isSyncing, history, pendingStarts, submits,
                 alertShown, session, focusLosses, mounted, served >>

\* Route protection effect of AppContent: navigate('/') from /exam without
\* a current user and from /admin without teacher access.
Protect(p, user, teacher, loading) ==
    IF loading THEN p
    ELSE IF p = "/exam" /\ user = None THEN "/"
    ELSE IF p = "/admin" /\ ~teacher THEN "/"
    ELSE p

\* <Route path="/admin" element={isTeacherAuth ? <TeacherPortal/> : null}>
TeacherPortalRendered == ~authLoading /\ path = "/admin" /\ isTeacherAuth

\* Firebase notifies the listener when the signed-in user changes.
Notify(u) == IF u # authUser THEN Append(authEvents, u) ELSE authEvents

\* onAuthStateChanged callback up to its await (or to its end, for null)
AuthStateChanged ==
    /\ authEvents # << >>
    /\ authEvents' = Tail(authEvents)
    /\ IF Head(authEvents) # None
       THEN /\ Len(profileLoads) < MaxProfileLoads
            /\ firebaseUid' = Head(authEvents)
            /\ profileLoads' = Append(profileLoads, Head(authEvents))
            /\ UNCHANGED << currentUser, isTeacherAuth, authLoading, path >>
       ELSE /\ currentUser' = None
            /\ firebaseUid' = None
            /\ isTeacherAuth' = FALSE
            /\ authLoading' = FALSE
            /\ path' = Protect(path, None, FALSE, FALSE)
            /\ profileLoads' = profileLoads
    /\ UNCHANGED << portalVars, authUser, adminConfirmed, showLoginModal,
                    modalVars >>

\* await dbService.loadUserProfile(uid) of the listener, and what follows
ProfileLoaded ==
    \E i \in DOMAIN profileLoads, r \in {"profile", "null", "throws"} :
        /\ r = "profile" => HasProfile(profileLoads[i])
        /\ r = "null" => ~HasProfile(profileLoads[i])
        /\ profileLoads' = Remove(profileLoads, i)
        /\ currentUser' = IF r = "profile" THEN profileLoads[i] ELSE currentUser
        /\ isTeacherAuth' = IF r = "null" THEN TRUE ELSE isTeacherAuth
        /\ authLoading' = FALSE
        /\ path' = Protect(path, currentUser', isTeacherAuth', FALSE)
        /\ UNCHANGED << portalVars, authUser, authEvents, adminConfirmed,
                        firebaseUid, showLoginModal, modalVars >>

\* Staff Access button of the landing page; the effect on isOpen follows
handleLoginClick ==
    /\ ~authLoading
    /\ path = "/"
    /\ ~showLoginModal
    /\ showLoginModal' = TRUE
    /\ isLoggingIn' = FALSE
    /\ UNCHANGED << portalVars, path, firebaseVars, firebaseUid, currentUser,
                    isTeacherAuth, authLoading, failedAttempts, lockoutUntil,
                    logins, failures >>

\* X button of the modal
CloseModal ==
    /\ showLoginModal
    /\ showLoginModal' = FALSE
    /\ UNCHANGED << portalVars, path, firebaseVars, firebaseUid, currentUser,
                    isTeacherAuth, authLoading, modalVars >>

\* The state changes of the catch branch of handleTeacherLogin
Caught(i) ==
    /\ failedAttempts' = logins[i].attempts + 1
    /\ lockoutUntil' = IF logins[i].attempts + 1 >= 3
                       THEN LockoutSeconds ELSE lockoutUntil
    /\ isLoggingIn' = FALSE
    /\ logins' = Remove(logins, i)
    /\ failures' = failures + 1

\* handleTeacherLogin up to its first await
handleTeacherLogin ==
    /\ showLoginModal
    /\ ~isLoggingIn
    /\ \/ /\ lockoutUntil # 0
          /\ UNCHANGED vars
       \/ /\ lockoutUntil = 0
          /\ Len(logins) < MaxLogins
          /\ failures < MaxFailures
          /\ isLoggingIn' = TRUE
          /\ logins' = Append(logins, [pc |-> "signIn",
                                       attempts |-> failedAttempts,
                                       uid |-> None])
          /\ UNCHANGED << portalVars, path, firebaseVars, appState,
                          failedAttempts, lockoutUntil, failures >>

\* await signInWithEmailAndPassword(...)
SignInDone ==
    \E i \in DOMAIN logins, r \in Uids \cup {"rejected"} :
        /\ logins[i].pc = "signIn"
        /\ IF r \in Uids
           THEN /\ Len(authEvents) < MaxAuthEvents
                /\ authUser' = r
                /\ authEvents' = Notify(r)
                /\ logins' = [logins EXCEPT ![i] =
                                [pc |-> "checkAdmin",
                                 attempts |-> logins[i].attempts, uid |-> r]]
                /\ UNCHANGED << isLoggingIn, failedAttempts, lockoutUntil,
                                failures >>
           ELSE /\ Caught(i)
                /\ UNCHANGED << authUser, authEvents >>
        /\ UNCHANGED << portalVars, path, profileLoads, adminConfirmed,
                        appState >>

\* await dbService.checkIsAdmin(uid); performLoginSuccess up to its timeout
CheckAdminDone ==
    \E i \in DOMAIN logins, r \in {"true", "false", "throws"} :
        /\ logins[i].pc = "checkAdmin"
        /\ r = "true" => InAdmins(logins[i].uid)
        /\ r = "false" => ~InAdmins(logins[i].uid)
        /\ IF r = "throws"
           THEN Caught(i) /\ UNCHANGED adminConfirmed
           ELSE /\ logins' = [logins EXCEPT ![i].pc =
                                IF r = "true" THEN "timer" ELSE "signOut"]
                /\ isLoggingIn' = (r = "true" \/ isLoggingIn)
                /\ adminConfirmed' = IF r = "true"
                                     THEN adminConfirmed \cup {logins[i].uid}
                                     ELSE adminConfirmed
                /\ UNCHANGED << failedAttempts, lockoutUntil, failures >>
        /\ UNCHANGED << portalVars, path, authUser, authEvents, profileLoads,
                        appState >>

\* await signOut(auth) of an account that is not an admin
SignOutDone ==
    \E i \in DOMAIN logins, ok \in BOOLEAN :
        /\ logins[i].pc = "signOut"
        /\ IF ok
           THEN /\ Len(authEvents) < MaxAuthEvents
                /\ authUser' = None
                /\ authEvents' = Notify(None)
                /\ isLoggingIn' = FALSE
                /\ logins' = Remove(logins, i)
                /\ UNCHANGED << failedAttempts, lockoutUntil, failures >>
           ELSE /\ Caught(i)
                /\ UNCHANGED << authUser, authEvents >>
        /\ UNCHANGED << portalVars, path, profileLoads, adminConfirmed,
                        appState >>

\* setTimeout callback of performLoginSuccess, with handleLoginSuccess
LoginTimerDone ==
    \E i \in DOMAIN logins :
        /\ logins[i].pc = "timer"
        /\ isLoggingIn' = FALSE
        /\ isTeacherAuth' = TRUE
        /\ showLoginModal' = FALSE
        /\ path' = "/admin"
        /\ failedAttempts' = 0
        /\ lockoutUntil' = 0
        /\ failures' = 0
        /\ logins' = Remove(logins, i)
        /\ UNCHANGED << portalVars, firebaseVars, firebaseUid, currentUser,
                        authLoading >>

\* One second passes during a lockout: the callback of setInterval
LockoutTick ==
    /\ lockoutUntil # 0
    /\ lockoutUntil' = lockoutUntil - 1
    /\ failedAttempts' = IF lockoutUntil' = 0 THEN 0 ELSE failedAttempts
    /\ failures' = IF lockoutUntil' = 0 THEN 0 ELSE failures
    /\ UNCHANGED << portalVars, path, firebaseVars, appState, isLoggingIn,
                    logins >>

\* onExit of TeacherPortal
handleExit ==
    /\ TeacherPortalRendered
    /\ Len(authEvents) < MaxAuthEvents
    /\ \E ok \in BOOLEAN :
         /\ authUser' = IF ok THEN None ELSE authUser
         /\ authEvents' = IF ok THEN Notify(None) ELSE authEvents
    /\ currentUser' = None
    /\ firebaseUid' = None
    /\ isTeacherAuth' = FALSE
    /\ path' = "/"
    /\ UNCHANGED << portalVars, profileLoads, adminConfirmed, authLoading,
                    showLoginModal, modalVars >>

\* The address p is opened in the browser from a page without StudentPortal:
\* the application is constructed anew, Firebase Auth restores the signed-in
\* user and notifies the listener of it.
OpenUrl ==
    \E p \in {"/", "/admin"} :
        /\ ~mounted
        /\ path' = p
        /\ authEvents' = << authUser >>
        /\ profileLoads' = << >>
        /\ firebaseUid' = None
        /\ currentUser' = None
        /\ isTeacherAuth' = FALSE
        /\ authLoading' = TRUE
        /\ showLoginModal' = FALSE
        /\ isLoggingIn' = FALSE
        /\ failedAttempts' = 0
        /\ lockoutUntil' = 0
        /\ logins' = << >>
        /\ failures' = 0
        /\ UNCHANGED << portalVars, authUser, adminConfirmed >>

Next ==
    \/ initData
    \/ OtherTabOpens
    \/ StartExamClick
    \/ StartExamLoaded
    \/ Tick
    \/ TimedOutEffect
    \/ WindowBlur
    \/ ResumeExam
    \/ SelectOption
    \/ ToggleFlag
    \/ JumpTo
    \/ PreviousQuestion
    \/ handleNext
    \/ handleRequestSubmit
    \/ CancelSubmit
    \/ ConfirmSubmit
    \/ SubmitDelayDone
    \/ SubmitSaveDone
    \/ BackToDashboard
    \/ OpenReview
    \/ CloseReview
    \/ SetReviewFilter
    \/ ReviewJumpTo
    \/ Unmount
    \/ AuthStateChanged
    \/ ProfileLoaded
    \/ handleLoginClick
    \/ CloseModal
    \/ handleTeacherLogin
    \/ SignInDone
    \/ CheckAdminDone
    \/ SignOutDone
    \/ LoginTimerDone
    \/ LockoutTick
    \/ handleExit
    \/ OpenUrl

Spec == Init /\ [][Next]_vars

(***************************************************************************)
(* Specifications of parts of the behaviour.  Each takes every step of the *)
(* program (continuations, timer, effects) and restricts what the          *)
(* environment does: which tabs are open and which controls the student    *)
(* uses.                                                                   *)
(***************************************************************************)
\* The Content Store and the sync runs of two tabs; the student is idle.
NextSync ==
    \/ initData
    \/ OtherTabOpens

SpecSync == Init /\ [][NextSync]_vars

\* Two tabs; the student only starts exams.
NextStart ==
    \/ initData
    \/ OtherTabOpens
    \/ StartExamClick
    \/ StartExamLoaded

SpecStart == Init /\ [][NextStart]_vars

\* One tab; the student starts exams, opens and closes the submit dialog,
\* submits and returns to the dashboard.
NextSubmit ==
    \/ StartExamClick
    \/ StartExamLoaded
    \/ Tick
    \/ TimedOutEffect
    \/ handleRequestSubmit
    \/ CancelSubmit
    \/ ConfirmSubmit
    \/ SubmitDelayDone
    \/ SubmitSaveDone
    \/ BackToDashboard

SpecSubmit == InitSynced("docC") /\ [][NextSubmit]_vars

\* A click on Start by a student who clicks it once.
StartExamClickOnce == pendingStarts = 0 /\ session = 0 /\ StartExamClick

\* One tab; the student starts one exam, loses and regains focus, opens and
\* closes the submit dialog and submits, and stays on the result screen.
NextFocus ==
    \/ StartExamClickOnce
    \/ StartExamLoaded
    \/ Tick
    \/ TimedOutEffect
    \/ WindowBlur
    \/ ResumeExam
    \/ handleRequestSubmit
    \/ CancelSubmit
    \/ ConfirmSubmit
    \/ SubmitDelayDone
    \/ SubmitSaveDone

SpecFocus == InitSynced("docC") /\ [][NextFocus]_vars

\* One tab; the student starts exams, answers and flags the first question,
\* loses focus, lets the countdown run out and returns to the dashboard.
NextRestart ==
    \/ StartExamClick
    \/ StartExamLoaded
    \/ Tick
    \/ TimedOutEffect
    \/ WindowBlur
    \/ SelectOption
    \/ ToggleFlag
    \/ SubmitDelayDone
    \/ SubmitSaveDone
    \/ BackToDashboard

SpecRestart == InitSynced("docC") /\ [][NextRestart]_vars

(***************************************************************************)
(* Properties.                                                             *)
(***************************************************************************)
\* The entries of a history that the session numbered s produced.
ResultsOf(h, s) == {i \in DOMAIN h : h[i].session = s}

\* C1: for every session, whatever the interleaving of the countdown's
\* expiry with the confirmation of a manual submit, at most one Result is
\* appended to History and at most one Result is written to the remote
\* history.
OneResultPerSession ==
    \A s \in 1..MaxSessions :
        /\ Cardinality(ResultsOf(history, s)) <= 1
        /\ Cardinality(ResultsOf(remoteHistory, s)) <= 1

\* One tab; the student starts exams, opens and closes the submit dialog,
\* submits and stays on the result screen.
NextTimeout ==
    \/ StartExamClick
    \/ StartExamLoaded
    \/ Tick
    \/ TimedOutEffect
    \/ handleRequestSubmit
    \/ CancelSubmit
    \/ ConfirmSubmit
    \/ SubmitDelayDone
    \/ SubmitSaveDone

\* That slice with the scheduling the browser guarantees: a pending passive
\* effect is run, an elapsed timeout fires, a settled promise is continued.
\* Nothing is assumed of the student or of the countdown.
SpecTimeout ==
    /\ InitSynced("docC")
    /\ [][NextTimeout]_vars
    /\ WF_vars(TimedOutEffect)
    /\ WF_vars(SubmitDelayDone)
    /\ WF_vars(SubmitSaveDone)

\* A step that starts an automatic submission.
AutoSubmitStarts ==
    /\ Len(submits') = Len(submits) + 1
    /\ submits'[Len(submits')].auto

\* C2: the countdown of an active session reaches zero by a tick from 1,
\* which sets timedOut; an automatic submission starts exactly when timedOut
\* is reset, so once for each arrival at zero; and from zero the session
\* enters phase result, whether the history write succeeds or fails and
\* without any action of the student.
TimeoutSubmitsOnce ==
    /\ [][/\ (timeLeft' = 0 /\ timeLeft # 0)
              => (examState = "active" /\ timeLeft = 1 /\ ~timedOut /\ timedOut')
          /\ (timedOut' /\ ~timedOut) => (timeLeft' = 0 /\ timeLeft # 0)
          /\ AutoSubmitStarts <=> (timedOut /\ ~timedOut')]_vars
    /\ (examState = "active" /\ timeLeft = 0) ~> (examState = "result")

\* The countdown of session 1 ran out, one submission was made and the
\* session is in phase result.
TimedOutSessionInResult ==
    /\ session = 1
    /\ examState = "result"
    /\ timeLeft = 0
    /\ Len(history) = 1
    /\ submits = << >>

\* A sync run that read stored metadata whose fingerprint is that of the
\* document it fetched.
SeesSameFingerprint(r) ==
    /\ r.markdown # None
    /\ r.localMeta.stored
    /\ r.localMeta.version = computeContentHash(r.markdown)

\* C3: a sync run that finds the fingerprint of its document in the stored
\* metadata, as the second of two runs on an unchanged document does, goes
\* on without a write: it never reaches saveLiveBank or saveLiveMetadata
\* and none of its steps changes the question list or the metadata.
UnchangedResyncWritesNothing ==
    [][\A t \in Tabs :
         /\ SeesSameFingerprint(sync'[t])
              => sync'[t].pc \notin {"saveBank", "saveMeta"}
         /\ (SeesSameFingerprint(sync[t]) /\ sync'[t] # sync[t])
              => UNCHANGED storeVars]_vars

\* The first run stored docA and has returned; the second run fetched the
\* unchanged docA, read the metadata and skipped the write.
SecondSyncSkippedWrite ==
    /\ sync["self"].pc = "done"
    /\ sync["other"].pc = "loadBank"
    /\ SeesSameFingerprint(sync["other"])
    /\ sync["other"].markdown = "docA"
    /\ storeMain = Bank(parseMarkdownQuestions("docA"))

\* The question list and the metadata of one document, or nothing stored.
SameDocument(main, meta) ==
    \/ main = NoBank /\ meta = NoMeta
    \/ \E d \in DocNames : /\ main = Bank(parseMarkdownQuestions(d))
                            /\ meta = Meta(computeContentHash(d))

\* C4: whenever no sync run is under way, also after a run in which a
\* storage write failed, the stored question list and the stored metadata
\* fingerprint come from the same document.
StoreHoldsOneDocument ==
    (\A t \in Tabs : sync[t].pc \in {"idle", "done"})
        => SameDocument(storeMain, storeMeta)

\* The number of questions in the Content Store, 0 if none was ever stored.
CachedCount == IF storeMain.stored THEN Len(storeMain.list) ELSE 0

\* What a run whose fetch failed does to the Content Store and where it
\* goes on: no write, and on to the read of the bank.
FailedFetchWritesNothing ==
    /\ (sync'["self"] # sync["self"] /\ sync["self"].markdown = None)
         => UNCHANGED storeVars
    /\ (sync["self"].pc = "fetch" /\ sync'["self"] # sync["self"]
         /\ sync'["self"].markdown = None)
         => sync'["self"].pc = "loadBank"

\* C5 as stated: after a failed fetch sync writes nothing and reports the
\* cached question count.
FailedFetchReportsCachedCount ==
    [][/\ FailedFetchWritesNothing
       /\ (sync["self"].pc = "loadBank" /\ sync'["self"].pc = "loadHistory"
            /\ sync["self"].markdown = None)
            => bankSize' = CachedCount]_vars

\* C5, amended: after a failed fetch sync writes nothing and reports the
\* cached question count if the read of the bank succeeds (0 if nothing
\* was ever stored); if the read fails the count stays as it was.
FailedFetchReportsCountRead ==
    [][/\ FailedFetchWritesNothing
       /\ (sync["self"].pc = "loadBank" /\ sync'["self"].pc = "loadHistory"
            /\ sync["self"].markdown = None)
            => /\ sync'["self"].live.ok
                    => (sync'["self"].live.value = storeMain
                        /\ bankSize' = CachedCount)
               /\ ~sync'["self"].live.ok => bankSize' = bankSize]_vars

\* The fetch failed, nothing was written and the count of the three
\* questions stored by an earlier visit is reported.
OfflineCountFromCache ==
    /\ sync["self"].pc = "loadHistory"
    /\ sync["self"].markdown = None
    /\ sync["self"].live.ok
    /\ sync["other"].pc = "idle"
    /\ storeMain = Bank(parseMarkdownQuestions("docA"))
    /\ bankSize = 3

\* A step in which a startExam call returns.
StartReturns == pendingStarts' = pendingStarts - 1

\* A step in which a startExam call succeeds.
StartSucceeds == session' = session + 1

\* C6: a start on a bank that is empty or was never stored is rejected: an
\* alert is shown (the empty-bank alert, or the failed-start alert if the
\* read of the bank itself fails), no session is created, questions,
\* answers, flags, timer and focus counter are unchanged and the phase stays
\* what it was; and the Start button is disabled while the reported bank
\* size is 0.
EmptyBankStartRejected ==
    [][/\ (StartReturns /\ (~storeMain.stored \/ storeMain.list = << >>))
            => /\ ~StartSucceeds
               /\ UNCHANGED << sessionVars, uiVars >>
               /\ alertShown' \in
                      {"The question bank is empty.",
                       "Failed to start exam. Data corruption detected."}
       /\ (pendingStarts' = pendingStarts + 1) => bankSize # 0]_vars

\* A start found a stored but empty bank and was rejected in phase intro.
EmptyBankAlertInIntro ==
    /\ alertShown = "The question bank is empty."
    /\ storeMain = Bank(<< >>)
    /\ examState = "intro"
    /\ session = 0
    /\ questions = << >>

\* The elements of a sequence.
Range(seq) == {seq[k] : k \in DOMAIN seq}

\* C7: after a successful start on a bank of n questions the selected list
\* has min(SelectCount, n) entries, each a question of the bank, and no id
\* occurs twice in it.
SelectionHasDistinctIds ==
    [][StartSucceeds
        => /\ Len(questions') = Min(SelectCount, Len(storeMain.list))
           /\ Range(questions') \subseteq Range(storeMain.list)
           /\ \A k, l \in DOMAIN questions' :
                 questions'[k].id = questions'[l].id => k = l]_vars

\* The orders of the elements of a list without repeated elements.
Orders(list) ==
    {p \in [1..Len(list) -> Range(list)] : Range(p) = Range(list)}

\* In how many of the equally likely runs of the random number generator
\* each shuffle gives the order p.
FisherYatesCount(list, p) ==
    Cardinality({js \in ShuffleChoices(Len(list)) : FisherYates(list, js) = p})

ComparatorSortCount(list, p) ==
    Cardinality({cs \in CompareOutcomes(Len(list)) :
                    ComparatorSort(list, cs) = p})

\* A startExam call is about to shuffle the stored bank.
StartAwaitsBank == pendingStarts > 0 /\ ~BankIsEmpty(storeMain)

\* The swap-based shuffle of startExam gives every order of the bank it is
\* about to shuffle in the same number of runs.
FisherYatesUniform ==
    StartAwaitsBank =>
        \A p, q \in Orders(storeMain.list) :
            FisherYatesCount(storeMain.list, p)
                = FisherYatesCount(storeMain.list, q)

\* C8: the shuffle of start() is unbiased, every order of the bank it is
\* about to shuffle is as likely as every other; stated of the comparator
\* sort of the older startExam.
ComparatorSortUniform ==
    StartAwaitsBank =>
        \A p, q \in Orders(storeMain.list) :
            ComparatorSortCount(storeMain.list, p)
                = ComparatorSortCount(storeMain.list, q)

\* C9: a successful start, whatever the state it is made in, leaves the
\* answer map empty, the flag set empty, the remaining time at the full
\* duration, the focus-loss counter at 0, the submitting flag cleared and
\* the phase active.
StartResetsSession ==
    [][StartSucceeds
        => /\ answers' = EmptyMap
           /\ flagged' = {}
           /\ timeLeft' = ExamDuration
           /\ cheatingAttempts' = 0
           /\ ~isSubmitting'
           /\ examState' = "active"]_vars

\* The second session has just started after a first one that was answered,
\* flagged, left the window, ran out of time and was submitted.
SecondSessionStartsClean ==
    /\ session = 2
    /\ examState = "active"
    /\ history # << >>
    /\ history[1].score = 1
    /\ focusLosses > 0
    /\ answers = EmptyMap
    /\ flagged = {}
    /\ timeLeft = ExamDuration
    /\ cheatingAttempts = 0
    /\ ~isSubmitting

\* A step in which the window loses focus.
FocusLost == focusLosses' = focusLosses + 1

\* C10: while a session is active a focus loss adds exactly 1 to the counter
\* and raises the overlay, unless a submission is in progress or the submit
\* dialog is open: then counter and overlay are unchanged; in the phases
\* intro and result a focus loss does not change the counter.
FocusLossCounted ==
    [][FocusLost
        => IF examState = "active" /\ ~isSubmitting /\ ~showSubmitModal
           THEN cheatingAttempts' = cheatingAttempts + 1 /\ showCheatingWarning'
           ELSE UNCHANGED << cheatingAttempts, showCheatingWarning >>]_vars

\* The window lost focus twice in session 1, once while the submit dialog
\* was open: the counter is 1 and the overlay is up.
FocusLostBehindDialog ==
    /\ session = 1
    /\ examState = "active"
    /\ showSubmitModal
    /\ focusLosses = 2
    /\ cheatingAttempts = 1
    /\ showCheatingWarning

(***************************************************************************)
(* The result phase.  One session of two questions out of three, answered, *)
(* flagged, left, submitted by the timer, then reviewed.                   *)
(***************************************************************************)
\* A focus loss while the result screen or the review view is shown.
WindowBlurInResult == examState = "result" /\ WindowBlur

NextReview ==
    \/ StartExamClickOnce
    \/ StartExamLoaded
    \/ Tick
    \/ TimedOutEffect
    \/ WindowBlurInResult
    \/ SelectOption
    \/ ToggleFlag
    \/ JumpTo
    \/ SubmitDelayDone
    \/ SubmitSaveDone
    \/ BackToDashboard
    \/ OpenReview
    \/ CloseReview
    \/ SetReviewFilter
    \/ ReviewJumpTo

SpecReview == InitSynced("docA") /\ [][NextReview]_vars

\* C11: while the phase is result, no step of the session (a click, a tick,
\* a focus loss, a review toggle, a filter change, a navigation, the end of
\* a submission) changes the stored answers; only the start of another
\* session replaces them.
ResultFreezesAnswers ==
    [][examState = "result" /\ session' = session => answers' = answers]_vars

\* A scored session with a stored answer is reviewed with the filter
\* 'incorrect', on its second question, after a focus loss.
ReviewedAfterResult ==
    /\ examState = "result"
    /\ reviewMode
    /\ reviewFilter = "incorrect"
    /\ currentQuestionIndex = 1
    /\ answers # EmptyMap
    /\ focusLosses > 0

(***************************************************************************)
(* The History.  Sessions of one question, answered or not, submitted by   *)
(* the timer, reviewed and left for the dashboard, one after the other.    *)
(***************************************************************************)
NextHistory ==
    \/ StartExamClick
    \/ StartExamLoaded
    \/ Tick
    \/ TimedOutEffect
    \/ SelectOption
    \/ SubmitDelayDone
    \/ SubmitSaveDone
    \/ BackToDashboard
    \/ OpenReview
    \/ CloseReview
    \/ SetReviewFilter
    \/ ReviewJumpTo

SpecHistory == InitSynced("docC") /\ [][NextHistory]_vars

\* h2 is h1 with one entry put in front
Prepended(h1, h2) == Len(h2) = Len(h1) + 1 /\ SubSeq(h2, 2, Len(h2)) = h1

\* h2 is h1 with one entry put somewhere
Inserted(h1, h2) ==
    /\ Len(h2) = Len(h1) + 1
    /\ \E i \in DOMAIN h2 : Remove(h2, i) = h1

\* C12: a step changes the History only by putting one Result in front of
\* it (index 0), the Result of the session being scored, and the remote
\* History only by adding one Result to it; the earlier Results stay as
\* they were and in their order.
HistoryAppendOnly ==
    [][/\ \/ history' = history
          \/ Prepended(history, history') /\ history'[1] = calculateResults
       /\ \/ remoteHistory' = remoteHistory
          \/ Inserted(remoteHistory, remoteHistory')]_vars

\* The second session is reviewed; its Result precedes the Result of the
\* first session, which scored differently.
SecondResultInFront ==
    /\ examState = "result"
    /\ reviewMode
    /\ Len(history) = 2
    /\ history[1].session = 2
    /\ history[2].session = 1
    /\ history[1].score # history[2].score

\* A submission returns in this step
SubmitReturns == Len(submits') = Len(submits) - 1

\* C13: when a submission returns and the remote History did not get its
\* Result (the write failed), the phase is result after the step and the
\* Result of that submission is in the History held in memory.
FailedWriteStillShowsResult ==
    [][SubmitReturns /\ remoteHistory' = remoteHistory
         => /\ examState' = "result"
            /\ \E p \in DOMAIN submits :
                 /\ submits[p].pc = "save"
                 /\ submits' = Remove(submits, p)
                 /\ submits[p].result \in Range(history')]_vars

\* The result is shown, the History holds a Result and the remote History
\* holds none.
ResultShownWithoutRemoteCopy ==
    /\ examState = "result"
    /\ submits = << >>
    /\ Len(history) = 1
    /\ history[1].session = session
    /\ remoteHistory = << >>

\* The timer, the effect and the 500 ms timeout of performSubmit are
\* scheduled by the browser; the promise of dbService.saveHistory (addDoc)
\* settles when the server answers, which need not happen.
SpecPendingWrite ==
    /\ InitSynced("docC")
    /\ [][NextTimeout]_vars
    /\ WF_vars(TimedOutEffect)
    /\ WF_vars(SubmitDelayDone)

\* performSubmit was called and has not returned
SubmissionTriggered == submits # << >>

\* C14: once a submission is triggered the phase becomes result, whether
\* or not the remote write ever completes.
ResultDoesNotWaitForWrite == SubmissionTriggered ~> examState = "result"

(***************************************************************************)
(* Scoring.  calculateResults is applied, by a performSubmit that waits    *)
(* for its 500 ms timeout, to the questions and answers of a session.      *)
(***************************************************************************)
\* The largest session whose answers and topics are all enumerated
MaxScored == 3

\* The largest session of which every number of correct answers is scored
MaxPercentTotal == 40

TopicLabels == {None, "Algebra", "Geometry"}

\* The i-th question of a bank: three options, answer letters A, B, C, A ...
ScoredQuestion(i, t) ==
    [id |-> i, options |-> 3, correctAnswerIndex |-> (i - 1) % 3, topic |-> t]

\* The maps from some of the ids of qs to an option index
AnswerMaps(qs) ==
    UNION {[S -> 0..2] : S \in SUBSET {qs[k].id : k \in DOMAIN qs}}

\* A state in which performSubmit was called on the questions qs with the
\* answers ans.  With no questions the session was left for the dashboard
\* (setQuestions([])) while a second submission was in its delay.
ScoringStart(qs, ans) ==
    /\ storeMain = Bank(IF qs = << >> THEN parseMarkdownQuestions("docC") ELSE qs)
    /\ storeMeta = Meta(computeContentHash("docC"))
    /\ bankSize = Len(storeMain.list)
    /\ remoteHistory = << >>
    /\ sync = [t \in Tabs |-> IF t = "self" THEN SyncDone ELSE SyncIdle]
    /\ otherSyncs = 0
    /\ examState = IF qs = << >> THEN "intro" ELSE "active"
    /\ questions = qs
    /\ answers = ans
    /\ flagged = {}
    /\ currentQuestionIndex = 0
    /\ timeLeft = ExamDuration
    /\ cheatingAttempts = 0
    /\ showCheatingWarning = FALSE
    /\ isSyncing = FALSE
    /\ isSubmitting = TRUE
    /\ showSubmitModal = FALSE
    /\ reviewMode = FALSE
    /\ reviewFilter = "all"
    /\ history = << >>
    /\ timedOut = FALSE
    /\ pendingStarts = 0
    /\ submits = << [auto |-> FALSE, pc |-> "delay", result |-> NoResult] >>
    /\ alertShown = None
    /\ session = 1
    /\ focusLosses = 0
    /\ mounted = TRUE
    /\ AppAtExam
    /\ served = << >>

InitScoring ==
    \E n \in 0..MaxScored :
      \E ts \in [1..n -> TopicLabels] :
        \E ans \in AnswerMaps([i \in 1..n |-> ScoredQuestion(i, ts[i])]) :
          ScoringStart([i \in 1..n |-> ScoredQuestion(i, ts[i])], ans)

NextScoring ==
    \/ SubmitDelayDone
    \/ SubmitSaveDone

SpecScoring == InitScoring /\ [][NextScoring]_vars

\* The first c of n questions without topic answered correctly, the others
\* not answered.
InitPercent ==
    \E n \in 0..MaxPercentTotal :
      \E c \in 0..n :
        ScoringStart([i \in 1..n |-> ScoredQuestion(i, None)],
                     [i \in 1..c |-> (i - 1) % 3])

SpecPercent == InitPercent /\ [][NextScoring]_vars

\* The questions of the session whose stored answer is their correct index
CorrectOnes ==
    {k \in DOMAIN questions :
       /\ questions[k].id \in DOMAIN answers
       /\ answers[questions[k].id] = questions[k].correctAnswerIndex}

\* C15: the score of a Result is the number of selected questions whose
\* stored answer index equals their correct index (a question without
\* stored answer is not among them), and its total is the number of
\* selected questions.
ScoreCountsCorrectAnswers ==
    \A i \in DOMAIN history :
      /\ history[i].score = Cardinality(CorrectOnes)
      /\ history[i].total = Len(questions)

\* Answers A, C and none against the correct answers A, B, C: 1 of 3, 33 %.
ScoredOneOfThree ==
    /\ Len(questions) = 3
    /\ answers = (1 :> 0) @@ (2 :> 2)
    /\ Len(history) = 1
    /\ history[1].score = 1
    /\ history[1].total = 3
    /\ history[1].percentage = 33

\* C16: the percentage of a Result is 100 * score / total rounded to the
\* nearest integer (a tie upwards) when total > 0, and 0 when total = 0; it
\* lies between 0 and 100, and it is 100 when every answer is correct.
PercentageIsRounded ==
    \A i \in DOMAIN history :
      LET r == history[i]
      IN  /\ r.percentage \in 0..100
          /\ r.total = 0 => r.percentage = 0
          /\ r.total > 0 =>
               /\ 2 * r.total * r.percentage <= 200 * r.score + r.total
               /\ 200 * r.score + r.total < 2 * r.total * (r.percentage + 1)
          /\ r.total > 0 /\ Cardinality(CorrectOnes) = Len(questions) =>
               r.score = r.total /\ r.percentage = 100

\* 'General' for a question without topic
LabelOf(q) == IF q.topic = None THEN "General" ELSE q.topic

RECURSIVE SumOf(_, _)
\* The sum of the field total, or of the field correct, of the entries of a tally
SumOf(tally, field) ==
    IF tally = << >> THEN 0
    ELSE tally[1][field] + SumOf(Tail(tally), field)

\* C17: the tally of a Result has one entry for each topic label of the
\* selected questions ('General' for a question without topic) and no
\* other; the total of an entry is the number of selected questions of its
\* topic and its correct the number of those answered correctly; the
\* totals sum to the total of the Result and the corrects to its score.
TallyCountsPerTopic ==
    \A i \in DOMAIN history :
      LET r == history[i]
          t == r.topicStats
          of(l) == {k \in DOMAIN questions : LabelOf(questions[k]) = l}
      IN  /\ {t[k].topic : k \in DOMAIN t} = {LabelOf(questions[k]) : k \in DOMAIN questions}
          /\ \A j, k \in DOMAIN t : t[j].topic = t[k].topic => j = k
          /\ \A k \in DOMAIN t :
               /\ t[k].total = Cardinality(of(t[k].topic))
               /\ t[k].correct = Cardinality(of(t[k].topic) \cap CorrectOnes)
          /\ SumOf(t, "total") = r.total
          /\ SumOf(t, "correct") = r.score

\* A Result of three questions in three topics, one of them 'General', with
\* one correct answer.
TallyOfThreeTopics ==
    /\ Len(history) = 1
    /\ Len(history[1].topicStats) = 3
    /\ \E k \in 1..3 : /\ history[1].topicStats[k].topic = "General"
                       /\ history[1].topicStats[k].correct = 1
    /\ history[1].score = 1

(***************************************************************************)
(* Review entitlement.                                                     *)
(***************************************************************************)
\* A session on the bank in which one question number occurs twice.
SpecEntitlement == InitSynced("docB") /\ [][NextReview]_vars

\* The questions of the session, by position, that are not answered correctly
IncorrectOnes == DOMAIN questions \ CorrectOnes

\* The first m of them in exam order
FirstIncorrect(m) ==
    {k \in IncorrectOnes : Cardinality({j \in IncorrectOnes : j < k}) < m}

\* The questions of the session, by position, that a student may review
AllowedOnes(isPremium) ==
    {k \in DOMAIN questions : ~IsRestricted(questions[k], isPremium)}

\* C18: in the phase result every correctly answered question may be
\* reviewed; a premium student may review every question; a non-premium
\* student with k incorrect questions may review the first
\* min(5, ceil(k / 2)) of them in exam order and no other incorrect one.
EntitlementGrantsFirstMistakes ==
    examState = "result" =>
      /\ \A isPremium \in BOOLEAN : CorrectOnes \subseteq AllowedOnes(isPremium)
      /\ AllowedOnes(TRUE) = DOMAIN questions
      /\ \E m \in 0..5 :
           /\ \/ 2 * m >= Cardinality(IncorrectOnes)
                   /\ 2 * (m - 1) < Cardinality(IncorrectOnes)
              \/ m = 5 /\ 2 * m < Cardinality(IncorrectOnes)
           /\ AllowedOnes(FALSE) \cap IncorrectOnes = FirstIncorrect(m)

\* The largest reviewed session of which every set of mistakes is enumerated
MaxReviewed == 11

\* performSubmit was called on a session of n questions with distinct ids,
\* some of them answered correctly and the others not answered.
InitReviewable ==
    \E n \in 1..MaxReviewed :
      \E S \in SUBSET (1..n) :
        ScoringStart([i \in 1..n |-> ScoredQuestion(i, None)],
                     [i \in S |-> (i - 1) % 3])

NextTiers ==
    \/ SubmitDelayDone
    \/ SubmitSaveDone
    \/ OpenReview
    \/ CloseReview
    \/ SetReviewFilter

SpecTiers == InitReviewable /\ [][NextTiers]_vars

\* Seven mistakes among the questions of a reviewed session: a non-premium
\* student may review the first four of them.
FourOfSevenMistakes ==
    /\ examState = "result"
    /\ reviewMode
    /\ Cardinality(IncorrectOnes) = 7
    /\ Cardinality(AllowedOnes(FALSE) \cap IncorrectOnes) = 4
    /\ freemiumConfig(FALSE).limit = 4
    /\ freemiumConfig(TRUE).limit = 7

\* Eleven mistakes: the cap of five applies.
FiveOfElevenMistakes ==
    /\ examState = "result"
    /\ Cardinality(IncorrectOnes) = 11
    /\ freemiumConfig(FALSE).limit = 5

(***************************************************************************)
(* getStats: the trend figures of the dashboard, computed from the History *)
(* at every render.                                                        *)
(***************************************************************************)
\* `${n}%`, and the text shown instead of a percentage without History
Shown(n) == [text |-> "n%", n |-> n]
Dashes == [text |-> "--", n |-> 0]

RECURSIVE SumOfPercentages(_)
\* history.reduce((acc, curr) => acc + curr.percentage, 0)
SumOfPercentages(h) ==
    IF h = << >> THEN 0 ELSE h[1].percentage + SumOfPercentages(Tail(h))

MeanTruncated(sum, n) == sum \div n

\* Math.round(sum / n) for n > 0 and 0 <= sum: the quotient of the one
\* binary64 division lies on the same side of every k + 0.5 as sum / n, or
\* on it; Math.round takes a tie upwards.
MeanRounded(sum, n) == (2 * sum + n) \div (2 * n)

RECURSIVE TopicEntries(_)
\* The entries of the tallies of the History, in the order history.forEach
\* and Object.entries visit them.
TopicEntries(h) ==
    IF h = << >> THEN << >> ELSE h[1].topicStats \o TopicEntries(Tail(h))

RECURSIVE TopicTotals(_, _)
\* topicTotals after the first n of the entries es, as the list of its
\* entries in the order the keys were inserted.
TopicTotals(es, n) ==
    IF n = 0 THEN << >>
    ELSE LET prev == TopicTotals(es, n - 1)
             e == es[n]
             at == {k \in 1..Len(prev) : prev[k].topic = e.topic}
         IN  IF at = {}
             THEN Append(prev, [topic |-> e.topic, total |-> e.total,
                                correct |-> e.correct])
             ELSE LET k == CHOOSE j \in at : TRUE
                  IN  [prev EXCEPT ![k] = [topic |-> prev[k].topic,
                                          total |-> prev[k].total + e.total,
                                          correct |-> prev[k].correct + e.correct]]

\* topic.split(' '), for the labels of the model
Words(topic) ==
    CASE topic = "Number Patterns" -> << "Number", "Patterns" >>
      [] OTHER -> << topic >>

\* topic.split(' ')[1] || topic
ShortTopic(topic) ==
    IF Len(Words(topic)) >= 2 /\ Words(topic)[2] # ""
    THEN Words(topic)[2]
    ELSE topic

\* The ratio num / den of nonnegative integers exceeds bestPerc, which is
\* -1 or the ratio best.num / best.den.  Ratios of small integers are equal
\* as binary64 numbers exactly if they are equal.
Exceeds(num, den, best) ==
    best.none \/ num * best.den > best.num * den

RECURSIVE BestAfter(_, _)
\* bestTopic and bestPerc after the first n entries of topicTotals
BestAfter(totals, n) ==
    IF n = 0 THEN [none |-> TRUE, num |-> 0, den |-> 1, bestTopic |-> "N/A"]
    ELSE LET best == BestAfter(totals, n - 1)
             stats == totals[n]
             num == IF stats.total > 0 THEN stats.correct ELSE 0
             den == IF stats.total > 0 THEN stats.total ELSE 1
         IN  IF Exceeds(num, den, best)
             THEN [none |-> FALSE, num |-> num, den |-> den,
                   bestTopic |-> ShortTopic(stats.topic)]
             ELSE best

getStats ==
    IF Len(history) = 0
    THEN [last |-> Dashes, avg |-> Shown(0), bestTopic |-> "N/A"]
    ELSE LET totals == TopicTotals(TopicEntries(history),
                                   Len(TopicEntries(history)))
         IN  [last |-> Shown(history[1].percentage),
              avg |-> Shown(MeanRounded(SumOfPercentages(history), Len(history))),
              bestTopic |-> BestAfter(totals, Len(totals)).bestTopic]

\* The most Results the remote History holds when the page is opened
MaxLoaded == 2

StatTopics == {"Algebra", "Number Patterns"}

\* The tallies of earlier sessions: one or two topics, with 0 of 1, 1 of 1
\* or 1 of 3 questions answered correctly in each.
PastEntries ==
    {[topic |-> t, total |-> c[1], correct |-> c[2]] :
       t \in StatTopics, c \in {<< 1, 0 >>, << 1, 1 >>, << 3, 1 >>}}

PastTallies ==
    {<< e >> : e \in PastEntries} \cup
    {<< e[1], e[2] >> : e \in {p \in PastEntries \X PastEntries :
                                 p[1].topic # p[2].topic}}

\* The Result calculateResults gave for a session with the tally t
PastResult(t) ==
    [session |-> 0,
     score |-> SumOf(t, "correct"),
     total |-> SumOf(t, "total"),
     percentage |-> RoundPercent(SumOf(t, "correct"), SumOf(t, "total")),
     topicStats |-> t]

\* initData waits for dbService.loadHistory; the bank of one question is
\* stored and read, the remote History holds the Results of earlier
\* sessions, most recent first.
InitStats ==
    /\ storeMain = Bank(parseMarkdownQuestions("docC"))
    /\ storeMeta = Meta(computeContentHash("docC"))
    /\ bankSize = Len(parseMarkdownQuestions("docC"))
    /\ \E n \in 0..MaxLoaded :
         \E ts \in [1..n -> PastTallies] :
           remoteHistory = [i \in 1..n |-> PastResult(ts[i])]
    /\ sync = [t \in Tabs |->
                 IF t = "self"
                 THEN [pc |-> "loadHistory", markdown |-> None,
                       localMeta |-> NoMeta,
                       live |-> [ok |-> TRUE, value |-> storeMain]]
                 ELSE SyncIdle]
    /\ otherSyncs = 0
    /\ examState = "intro"
    /\ questions = << >>
    /\ answers = EmptyMap
    /\ flagged = {}
    /\ currentQuestionIndex = 0
    /\ timeLeft = ExamDuration
    /\ cheatingAttempts = 0
    /\ showCheatingWarning = FALSE
    /\ isSyncing = TRUE
    /\ isSubmitting = FALSE
    /\ showSubmitModal = FALSE
    /\ reviewMode = FALSE
    /\ reviewFilter = "all"
    /\ history = << >>
    /\ timedOut = FALSE
    /\ pendingStarts = 0
    /\ submits = << >>
    /\ alertShown = None
    /\ session = 0
    /\ focusLosses = 0
    /\ mounted = TRUE
    /\ AppAtExam
    /\ served = << >>

NextStats ==
    \/ SyncLoadHistory("self")
    \/ StartExamClickOnce
    \/ StartExamLoaded
    \/ Tick
    \/ TimedOutEffect
    \/ SubmitDelayDone
    \/ SubmitSaveDone

SpecStats == InitStats /\ [][NextStats]_vars

\* C19: without History getStats gives the texts shown for 'no data';
\* otherwise its most recent percentage is the percentage of the first
\* entry of the History and its average is the mean of the percentages of
\* all entries, rounded to the nearest integer (a tie upwards).
AggregateLastAndAverage ==
    /\ history = << >> =>
         getStats = [last |-> Dashes, avg |-> Shown(0), bestTopic |-> "N/A"]
    /\ history # << >> =>
         /\ getStats.last = Shown(history[1].percentage)
         /\ getStats.avg.text = "n%"
         /\ LET n == Len(history)
                sum == SumOfPercentages(history)
                avg == getStats.avg.n
            IN  /\ 2 * n * avg <= 2 * sum + n
                /\ 2 * sum + n < 2 * n * (avg + 1)

\* A session without answers was scored after Results of 33 % and 100 %
\* were loaded: its 0 % is the most recent percentage, and the mean 44.33
\* is shown as 44 %.
RecentSessionLeadsAverage ==
    /\ examState = "result"
    /\ Len(history) = 3
    /\ history[1].session = 1
    /\ history[2].percentage = 33
    /\ history[3].percentage = 100
    /\ getStats.last = Shown(0)
    /\ getStats.avg = Shown(44)

\* The topic labels of the History, and the sums of a label over all entries
HistoryTopics == {TopicEntries(history)[k].topic : k \in DOMAIN TopicEntries(history)}

RECURSIVE SumFor(_, _, _)
SumFor(es, topic, field) ==
    IF es = << >> THEN 0
    ELSE (IF es[1].topic = topic THEN es[1][field] ELSE 0)
         + SumFor(Tail(es), topic, field)

\* The position at which a label is encountered first
FirstSeen(topic) ==
    CHOOSE k \in DOMAIN TopicEntries(history) :
      /\ TopicEntries(history)[k].topic = topic
      /\ \A j \in 1..(k - 1) : TopicEntries(history)[j].topic # topic

\* Topic a is at least as strong as topic b: its ratio of correct to total,
\* summed over all entries, is higher, or equal with a encountered first.
Outranks(a, b) ==
    LET es == TopicEntries(history)
        ca == SumFor(es, a, "correct")
        ta == SumFor(es, a, "total")
        cb == SumFor(es, b, "correct")
        tb == SumFor(es, b, "total")
    IN  \/ ca * tb > cb * ta
        \/ ca * tb = cb * ta /\ FirstSeen(a) <= FirstSeen(b)

\* C20: the strongest topic getStats reports is the topic label of the
\* History whose ratio of correct to total, summed over all entries, is the
\* highest, and among labels of equal ratio the one encountered first.
StrongestTopicIsBestLabel ==
    HistoryTopics # {} =>
      /\ getStats.bestTopic \in HistoryTopics
      /\ \A b \in HistoryTopics : Outranks(getStats.bestTopic, b)

(***************************************************************************)
(* Leaving the exam.  One session of one question, submitted by the timer  *)
(* or by hand, and the component unmounted at any moment.                  *)
(***************************************************************************)
NextLeave ==
    \/ StartExamClickOnce
    \/ StartExamLoaded
    \/ Tick
    \/ TimedOutEffect
    \/ handleRequestSubmit
    \/ ConfirmSubmit
    \/ SubmitDelayDone
    \/ SubmitSaveDone
    \/ BackToDashboard
    \/ Unmount

SpecLeave == InitSynced("docC") /\ [][NextLeave]_vars

\* C21: once the component is left, no step of its session runs: the
\* countdown does not tick, no submission starts or goes on, and no Result
\* is put into the History or into the remote History.
NothingRunsAfterLeaving ==
    [][~mounted => UNCHANGED << timeLeft, submits, history, remoteHistory >>]_vars

\* No Result is persisted after the component was left
NothingPersistedAfterLeaving ==
    [][~mounted => remoteHistory' = remoteHistory]_vars

\* No tick and no new submission after the component was left
NoTimerAfterLeaving ==
    [][~mounted => timeLeft' = timeLeft /\ Len(submits') <= Len(submits)]_vars

(***************************************************************************)
(* The Content Store out of order during a sync.                           *)
(***************************************************************************)
\* The run of this tab has fetched a document, no write of it reached the
\* Content Store and the read of the bank was rejected.
StoreFailedAfterFetch ==
    /\ sync["self"].pc = "loadHistory"
    /\ sync["self"].markdown \in DocNames
    /\ ~sync["self"].live.ok
    /\ ~storeMain.stored
    /\ ~storeMeta.stored

\* C22: when the Content Store fails while the fetch succeeds, the sync
\* reports the number of questions of the fetched document (so that Start
\* is enabled when the document has questions).
StoreOutageReportsFetchedCount ==
    StoreFailedAfterFetch =>
        bankSize = Len(parseMarkdownQuestions(sync["self"].markdown))

(***************************************************************************)
(* The parser on served documents.  The document "docS" has up to          *)
(* MaxBlocks question blocks, each with or without topic line, option      *)
(* lines and answer line, and possibly a last header that nothing          *)
(* follows; the sync run of a first visit has fetched it.                  *)
(***************************************************************************)
MaxBlocks == 2

BlockKinds(num) ==
    {Block(num, topic, nopts, letter) :
        topic \in {"", "Algebra"}, nopts \in {0, 2}, letter \in {"", "B", "D"}}

RECURSIVE BlockSeqs(_)
BlockSeqs(n) ==
    IF n = 0
    THEN {<< >>}
    ELSE BlockSeqs(n - 1) \cup
         {Append(bs, b) : bs \in {x \in BlockSeqs(n - 1) : Len(x) = n - 1},
                          b \in BlockKinds(n)}

ServedDocs ==
    BlockSeqs(MaxBlocks) \cup
    {Append(bs, EmptyBlock(Len(bs) + 1)) : bs \in BlockSeqs(MaxBlocks)}

InitParse ==
    /\ served \in ServedDocs
    /\ storeMain = NoBank
    /\ storeMeta = NoMeta
    /\ remoteHistory = << >>
    /\ sync = [t \in Tabs |->
                 IF t = "self"
                 THEN [pc |-> "loadMeta", markdown |-> "docS",
                       localMeta |-> NoMeta, live |-> NoLive]
                 ELSE SyncIdle]
    /\ otherSyncs = 0
    /\ examState = "intro"
    /\ questions = << >>
    /\ bankSize = 0
    /\ answers = EmptyMap
    /\ flagged = {}
    /\ currentQuestionIndex = 0
    /\ timeLeft = ExamDuration
    /\ cheatingAttempts = 0
    /\ showCheatingWarning = FALSE
    /\ isSyncing = TRUE
    /\ isSubmitting = FALSE
    /\ showSubmitModal = FALSE
    /\ reviewMode = FALSE
    /\ reviewFilter = "all"
    /\ history = << >>
    /\ timedOut = FALSE
    /\ pendingStarts = 0
    /\ submits = << >>
    /\ alertShown = None
    /\ session = 0
    /\ focusLosses = 0
    /\ mounted = TRUE
    /\ AppAtExam

NextParse ==
    \/ SyncLoadMeta("self")
    \/ SyncSaveBank("self")
    \/ SyncSaveMeta("self")
    \/ SyncLoadBank("self")
    \/ SyncLoadHistory("self")

SpecParse == InitParse /\ [][NextParse]_vars

\* The blocks of the served document that are not the empty string.
NonEmptyBlocks == SelectSeq(served, LAMBDA b : ~b.empty)

\* The Question a block gives when it is the only block of its document.
AloneQuestion(b) == ParseFrom(<< b >>, 1, << >>)[1]

\* C23: the stored bank has exactly one Question per non-empty block of the
\* document, in document order, each the Question its block gives on its
\* own whatever the other blocks are, with id q-<number of the header>; a
\* block without answer letter gets correct index 0.
ParsedBlockByBlock ==
    storeMain.stored =>
        /\ Len(storeMain.list) = Len(NonEmptyBlocks)
        /\ \A i \in 1..Len(NonEmptyBlocks) :
             /\ storeMain.list[i].id = NonEmptyBlocks[i].num
             /\ storeMain.list[i] = AloneQuestion(NonEmptyBlocks[i])
             /\ NonEmptyBlocks[i].letter = ""
                  => storeMain.list[i].correctAnswerIndex = 0

\* A block without option, topic and answer lines in front of a well-formed
\* block and a last empty header: two Questions stored.
MalformedBlockParsed ==
    /\ storeMain.stored
    /\ Len(served) = 3
    /\ served[1] = Block(1, "", 0, "")
    /\ served[2] = Block(2, "Algebra", 2, "B")
    /\ served[3].empty
    /\ Len(storeMain.list) = 2
    /\ storeMain.list[1].correctAnswerIndex = 0

\* C24: every Question of the stored bank has its correct index among the
\* indices of its options.
CorrectIndexWithinOptions ==
    storeMain.stored =>
        \A i \in 1..Len(storeMain.list) :
            /\ 0 <= storeMain.list[i].correctAnswerIndex
            /\ storeMain.list[i].correctAnswerIndex < storeMain.list[i].options

(***************************************************************************)
(* The phases of the exam.                                                 *)
(***************************************************************************)
PhaseSteps ==
    {<< "intro", "active" >>, << "active", "result" >>, << "result", "intro" >>}

\* C25: the phase changes only from intro to active, from active to result
\* and from result to intro.
PhaseFollowsCycle ==
    [][examState' # examState => << examState, examState' >> \in PhaseSteps]_vars

\* The review view is on only in phase result
ReviewOnlyInResult == reviewMode => examState = "result"

\* The phase never changes from active to intro
NoActiveToIntro ==
    [][~(examState = "active" /\ examState' = "intro")]_vars

\* C26: while the phase stays active no step changes the selected question
\* list or its order, and no answer given so far is taken away.
SessionQuestionsFixed ==
    [][(examState = "active" /\ examState' = "active")
          => /\ questions' = questions
             /\ \A id \in DOMAIN answers : id \in DOMAIN answers']_vars

(***************************************************************************)
(* Answering and submitting.  One session on the bank of three questions:  *)
(* the student answers, flags, moves between the questions and submits by  *)
(* hand, or the countdown submits.                                         *)
(***************************************************************************)
NextAnswer ==
    \/ StartExamClickOnce
    \/ StartExamLoaded
    \/ Tick
    \/ TimedOutEffect
    \/ SelectOption
    \/ ToggleFlag
    \/ JumpTo
    \/ handleRequestSubmit
    \/ CancelSubmit
    \/ ConfirmSubmit
    \/ SubmitDelayDone
    \/ SubmitSaveDone

SpecAnswer == InitSynced("docA") /\ [][NextAnswer]_vars

\* C27: the Result a submission appends is the score of the answers as they
\* stood when it was triggered: as long as the submission is in its delay
\* the score of the current answers stays what it was, and the Result taken
\* at the end of the delay is that score.
ResultOfAnswersAtTrigger ==
    [][\A p \in DOMAIN submits :
          (submits[p].pc = "delay" /\ p \in DOMAIN submits')
             => /\ submits'[p].pc = "delay" => calculateResults' = calculateResults
                /\ submits'[p].pc = "save"
                     => submits'[p].result = calculateResults]_vars

\* C28: on the result screen the figures displayed (calculateResults() of
\* the render) are those of the Result the submission put in front of the
\* History and sent to the remote History.
DisplayedResultIsStoredResult ==
    (examState = "result" /\ ~reviewMode /\ history # << >>)
        => history[1] = calculateResults

(***************************************************************************)
(* The countdown.                                                          *)
(***************************************************************************)
\* A change of the remaining time within a session is a tick: it happens
\* in phase active with no submission in progress and takes one second off
TickWhileRunning ==
    [][(timeLeft' # timeLeft /\ session' = session)
          => /\ examState = "active"
             /\ ~isSubmitting
             /\ timeLeft' = timeLeft - 1]_vars

\* The remaining time is within the duration of the exam
TimeLeftInRange == timeLeft \in 0..ExamDuration

\* With the submission-in-progress flag set no submission starts
NoSubmissionWhileSubmitting ==
    [][isSubmitting => Len(submits') <= Len(submits)]_vars

\* C29: the countdown ticks only in phase active with no submission in
\* progress, each tick takes exactly one second off, the remaining time
\* stays within 0..duration and does not grow during a session, and once
\* the submission-in-progress flag is set no further submission starts.
CountdownStopsAtSubmission ==
    /\ TickWhileRunning
    /\ []TimeLeftInRange
    /\ NoSubmissionWhileSubmitting

(***************************************************************************)
(* Answers and flags.                                                      *)
(***************************************************************************)
\* selectedAnswer of the k-th question of the session: answers[q.id], -1
\* standing for undefined
AnswerAt(ans, k) ==
    IF questions[k].id \in DOMAIN ans THEN ans[questions[k].id] ELSE -1

\* Questions of the session other than the one on screen.
OtherQuestions == DOMAIN questions \ {currentQuestionIndex + 1}

\* C30: within a session, a step that changes the answers (an option was
\* selected) gives the question on screen an answer, leaves the answers of
\* the other questions and the flags as they were; a step that changes the
\* flags leaves the flags of the other questions, the answers and the
\* score as they were.
SelectAndFlagChangeOneQuestion ==
    [][session' = session =>
         /\ answers' # answers =>
              /\ flagged' = flagged
              /\ HasCurrentQ
              /\ AnswerAt(answers', currentQuestionIndex + 1) # -1
              /\ \A k \in OtherQuestions :
                   AnswerAt(answers', k) = AnswerAt(answers, k)
         /\ flagged' # flagged =>
              /\ answers' = answers
              /\ calculateResults' = calculateResults
              /\ \A k \in OtherQuestions :
                   (questions[k].id \in flagged') = (questions[k].id \in flagged)]_vars

\* Two questions in the session, the second answered and flagged after the
\* first was answered.
SecondAnsweredAndFlagged ==
    /\ examState = "active"
    /\ Len(questions) = 2
    /\ AnswerAt(answers, 1) # -1
    /\ AnswerAt(answers, 2) # -1
    /\ AnswerAt(answers, 1) # AnswerAt(answers, 2)
    /\ questions[2].id \in flagged
    /\ questions[1].id \notin flagged

ReviewKeepsSession ==
    [][(/\ examState = "result"
        /\ session' = session
        /\ \/ reviewMode' # reviewMode
           \/ reviewFilter' # reviewFilter
           \/ currentQuestionIndex' # currentQuestionIndex)
          => /\ UNCHANGED << examState, questions, answers, flagged, history,
                             remoteHistory >>
             /\ NumCorrect(questions', answers') = NumCorrect(questions, answers)]_vars

\* Back on the result screen after a review in which the filter 'flagged'
\* was chosen and the second question looked at, of a session with an
\* answer and a flag.
BackFromReview ==
    /\ examState = "result"
    /\ ~reviewMode
    /\ reviewFilter = "flagged"
    /\ currentQuestionIndex = 1
    /\ answers # EmptyMap
    /\ flagged # {}
    /\ history # << >>

\* C33: the step from result back to intro leaves no question list, no
\* answers and no flags of the finished session in memory, and keeps the
\* History.
DashboardDiscardsSession ==
    [][(examState = "result" /\ examState' = "intro")
          => /\ questions' = << >>
             /\ answers' = EmptyMap
             /\ flagged' = {}
             /\ history' = history
             /\ history # << >>]_vars

\* The step from result back to intro empties the question list and keeps
\* the History
DashboardEmptiesQuestionList ==
    [][(examState = "result" /\ examState' = "intro")
          => questions' = << >> /\ history' = history /\ history # << >>]_vars

(***************************************************************************)
(* The focus overlay over several sessions.  The student clicks Start only *)
(* when no start is under way, loses focus, acknowledges the overlay or    *)
(* not, lets the countdown submit and returns to the dashboard.            *)
(***************************************************************************)
StartExamClickAlone == pendingStarts = 0 /\ StartExamClick

NextOverlay ==
    \/ StartExamClickAlone
    \/ StartExamLoaded
    \/ Tick
    \/ TimedOutEffect
    \/ WindowBlur
    \/ ResumeExam
    \/ SubmitDelayDone
    \/ SubmitSaveDone
    \/ BackToDashboard

SpecOverlay == InitSynced("docC") /\ [][NextOverlay]_vars

\* C34: when a start puts a session into phase active, the focus overlay is
\* not displayed.
StartShowsNoOverlay ==
    [][(session' # session /\ examState' = "active")
          => ~showCheatingWarning']_vars

(***************************************************************************)
(* Answers, flags and the position within the selected questions.          *)
(***************************************************************************)
\* The ids of the selected questions.
SelectedIds == {questions[k].id : k \in DOMAIN questions}

\* C35: in the phases active and result every id of the answer map and of
\* the flag set is the id of a selected question, every stored answer is
\* an option index of a selected question of that id, there are no more
\* answers than selected questions, and the current question index is one
\* of 0..(number of selected questions - 1).
AnswersAndIndexWithinSelection ==
    examState \in {"active", "result"} =>
        /\ DOMAIN answers \subseteq SelectedIds
        /\ flagged \subseteq SelectedIds
        /\ \A k \in DOMAIN questions :
             questions[k].id \in DOMAIN answers
                => answers[questions[k].id] \in 0..(questions[k].options - 1)
        /\ Cardinality(DOMAIN answers) <= Len(questions)
        /\ currentQuestionIndex \in 0..(Len(questions) - 1)

(***************************************************************************)
(* Termination of the sync.  Every fetch and every storage call of this    *)
(* tab's initData settles, with success or failure; nothing is assumed of  *)
(* the other tab or of the student.                                        *)
(***************************************************************************)
SpecSyncSettles ==
    /\ Init
    /\ [][NextStart]_vars
    /\ WF_vars(SyncFetch("self"))
    /\ WF_vars(SyncLoadMeta("self"))
    /\ WF_vars(SyncSaveBank("self"))
    /\ WF_vars(SyncSaveMeta("self"))
    /\ WF_vars(SyncLoadBank("self"))
    /\ WF_vars(SyncLoadHistory("self"))

\* C36: the sync of this tab returns, whichever of its calls fail; when it
\* has returned the syncing indicator is off, and no startExam call is made
\* while the indicator is on.
SyncTerminatesAndGatesStart ==
    /\ <>(sync["self"].pc = "done")
    /\ [](sync["self"].pc = "done" => ~isSyncing)
    /\ [][pendingStarts' > pendingStarts => ~isSyncing]_vars

\* The sync has returned without a bank in the Content Store (first visit,
\* fetch or storage failed): indicator off, count 0.
SyncEndedWithoutBank ==
    /\ sync["self"].pc = "done"
    /\ ~isSyncing
    /\ ~storeMain.stored
    /\ ~storeMeta.stored
    /\ bankSize = 0

(***************************************************************************)
(* Overlapping syncs of two tabs on a Content Store that works: every      *)
(* fetch returns a document and every call of the store succeeds.          *)
(***************************************************************************)
FetchSucceeds(t) == SyncFetch(t) /\ sync'[t].pc = "loadMeta"

LoadMetaSucceeds(t) ==
    /\ SyncLoadMeta(t)
    /\ sync'[t].localMeta = storeMeta
    /\ sync'[t].pc = IF NeedsUpdate(storeMeta, computeContentHash(sync[t].markdown))
                     THEN "saveBank" ELSE "loadBank"

SaveBankSucceeds(t) ==
    /\ SyncSaveBank(t)
    /\ storeMain' = Bank(parseMarkdownQuestions(sync[t].markdown))

SaveMetaSucceeds(t) ==
    /\ SyncSaveMeta(t)
    /\ storeMeta' = Meta(computeContentHash(sync[t].markdown))

NextOverlap ==
    \/ OtherTabOpens
    \/ \E t \in Tabs : FetchSucceeds(t)
    \/ \E t \in Tabs : LoadMetaSucceeds(t)
    \/ \E t \in Tabs : SaveBankSucceeds(t)
    \/ \E t \in Tabs : SaveMetaSucceeds(t)
    \/ \E t \in Tabs : SyncLoadBank(t)
    \/ \E t \in Tabs : SyncLoadHistory(t)

SpecOverlap == Init /\ [][NextOverlap]_vars

\* C37: once the sync runs of both tabs have returned, the stored question
\* list and the stored fingerprint belong to the same document.
OverlappingSyncsAgree ==
    (otherSyncs > 0 /\ \A t \in Tabs : sync[t].pc = "done")
        => SameDocument(storeMain, storeMeta)


(***************************************************************************)
(* Identifiers of the Questions of one parse.                              *)
(***************************************************************************)
\* C38: the Questions a sync run has just parsed from the document it
\* fetched (it is about to store them, or has stored them and is about to
\* write the metadata) have pairwise distinct ids.
ParsedIdsPairwiseDistinct ==
    \A t \in Tabs :
        sync[t].pc \in {"saveBank", "saveMeta"} =>
            LET parsed == parseMarkdownQuestions(sync[t].markdown)
            IN  \A i, j \in DOMAIN parsed :
                    parsed[i].id = parsed[j].id => i = j


(***************************************************************************)
(* The landing page, the staff form and the staff portal.  The application *)
(* is opened on the landing page with nobody signed in; StudentPortal is   *)
(* not mounted.                                                            *)
(***************************************************************************)
InitApp ==
    /\ storeMain = NoBank
    /\ storeMeta = NoMeta
    /\ remoteHistory = << >>
    /\ sync = [t \in Tabs |-> SyncIdle]
    /\ otherSyncs = 0
    /\ examState = "intro"
    /\ questions = << >>
    /\ bankSize = 0
    /\ answers = EmptyMap
    /\ flagged = {}
    /\ currentQuestionIndex = 0
    /\ timeLeft = ExamDuration
    /\ cheatingAttempts = 0
    /\ showCheatingWarning = FALSE
    /\ isSyncing = FALSE
    /\ isSubmitting = FALSE
    /\ showSubmitModal = FALSE
    /\ reviewMode = FALSE
    /\ reviewFilter = "all"
    /\ history = << >>
    /\ timedOut = FALSE
    /\ pendingStarts = 0
    /\ submits = << >>
    /\ alertShown = None
    /\ session = 0
    /\ focusLosses = 0
    /\ mounted = FALSE
    /\ served = << >>
    /\ authUser = None
    /\ authEvents = << None >>
    /\ profileLoads = << >>
    /\ path = "/"
    /\ firebaseUid = None
    /\ currentUser = None
    /\ isTeacherAuth = FALSE
    /\ authLoading = TRUE
    /\ showLoginModal = FALSE
    /\ isLoggingIn = FALSE
    /\ failedAttempts = 0
    /\ lockoutUntil = 0
    /\ logins = << >>
    /\ adminConfirmed = {}
    /\ failures = 0

\* One staff login at a time: the form is not submitted again while a
\* call of handleTeacherLogin is in flight.
handleTeacherLoginAlone == logins = << >> /\ handleTeacherLogin

NextAccess ==
    \/ AuthStateChanged
    \/ ProfileLoaded
    \/ handleLoginClick
    \/ CloseModal
    \/ handleTeacherLoginAlone
    \/ SignInDone
    \/ CheckAdminDone
    \/ SignOutDone
    \/ LoginTimerDone
    \/ LockoutTick
    \/ handleExit
    \/ OpenUrl

SpecAccess == InitApp /\ [][NextAccess]_vars

\* The staff form on one page, used with the credentials of the admin or
\* with credentials that Firebase Auth rejects: no address is opened,
\* nobody leaves the staff portal.
SignInOfAdmin == SignInDone /\ authUser' \in {None, "admin"}

NextLockout ==
    \/ AuthStateChanged
    \/ ProfileLoaded
    \/ handleLoginClick
    \/ CloseModal
    \/ handleTeacherLogin
    \/ SignInOfAdmin
    \/ CheckAdminDone
    \/ LoginTimerDone
    \/ LockoutTick

SpecLockout == InitApp /\ [][NextLockout]_vars

\* C39: whenever the staff portal is rendered, somebody is signed in and
\* checkIsAdmin has returned true for that identity.
PortalOnlyForConfirmedAdmin ==
    TeacherPortalRendered => authUser # None /\ authUser \in adminConfirmed


\* C40: the failed-attempt counter never exceeds 3; from the third failed
\* staff login since the counter was last reset a lockout is running; while
\* a lockout is running no credential check is started and the counter
\* changes only by being reset to 0 together with the end of the lockout;
\* the end of a lockout and a successful login leave the counter at 0 and no
\* lockout running.
LockoutDiscipline ==
    /\ [](failedAttempts <= 3)
    /\ [](failures >= 3 => lockoutUntil # 0)
    /\ [][lockoutUntil # 0 => Len(logins') <= Len(logins)]_vars
    /\ [][(lockoutUntil # 0 /\ failedAttempts' # failedAttempts)
            => (failedAttempts' = 0 /\ lockoutUntil' = 0)]_vars
    /\ [][(lockoutUntil # 0 /\ lockoutUntil' = 0) => failedAttempts' = 0]_vars
    /\ [][(path # "/admin" /\ path' = "/admin")
            => (failedAttempts' = 0 /\ lockoutUntil' = 0)]_vars

====
